---- MODULE Spec2Model ----
(***************************************************************************)
(* Model of the geometry-matching and permutation-search engine of         *)
(* pymatgen.analysis.chemenv.coordination_environments:                    *)
(*   AbstractGeometry, symmetry_measure / find_rotation /                  *)
(*   find_scaling_factor and the permutation searches of                   *)
(*   LocalGeometryFinder.                                                  *)
(*                                                                         *)
(* Numbers are exact rationals.  All point sets of the model lie in one    *)
(* plane through the origin of the 3D space, and a point is written by its *)
(* two coordinates in that plane; for such point sets the quantities the   *)
(* code obtains from the singular value decomposition have closed forms    *)
(* in the entries of the cross-covariance matrix (see SigmaSumSq).         *)
(* A numpy array of points is held as integer rows over one denominator.   *)
(***************************************************************************)
EXTENDS Integers, Sequences, FiniteSets, TLC

(***************************************************************************)
(* Exact arithmetic: a number is <<n, d>> with d > 0, in lowest terms.     *)
(***************************************************************************)
Abs(x) == IF x < 0 THEN -x ELSE x

RECURSIVE Gcd(_, _)
Gcd(a, b) == IF b = 0 THEN a ELSE Gcd(b, a % b)

Rat(n, d) ==
  LET s == IF d < 0 THEN -1 ELSE 1
      g == Gcd(Abs(n), Abs(d))
  IN  <<(s * n) \div g, (s * d) \div g>>

RInt(k) == <<k, 1>>
RZero == <<0, 1>>
ROne == <<1, 1>>
RAdd(a, b) == Rat(a[1] * b[2] + b[1] * a[2], a[2] * b[2])
RSub(a, b) == Rat(a[1] * b[2] - b[1] * a[2], a[2] * b[2])
RMul(a, b) == Rat(a[1] * b[1], a[2] * b[2])
RDiv(a, b) == Rat(a[1] * b[2], a[2] * b[1])
RLeq(a, b) == a[1] * b[2] <= b[1] * a[2]
RLt(a, b) == a[1] * b[2] < b[1] * a[2]
RAbs(a) == <<Abs(a[1]), a[2]>>

Lcm(a, b) ==
  IF a % b = 0 THEN a ELSE IF b % a = 0 THEN b ELSE (a \div Gcd(a, b)) * b

(***************************************************************************)
(* Values of a float that are not rational numbers, and Python's None,     *)
(* written as pairs with a non-positive second entry.  numpy's float64     *)
(* division does not raise: 0.0/0.0 is nan and x/0.0 (x > 0) is inf.       *)
(***************************************************************************)
NaN == <<0, 0>>
Inf == <<1, 0>>
None == <<0, -1>>

IsNum(a) == a[2] > 0

\* float64 division num / denom of two non-negative floats
FDiv(num, denom) ==
  IF ~IsNum(num) \/ ~IsNum(denom) THEN NaN
  ELSE IF denom = RZero THEN (IF num = RZero THEN NaN ELSE Inf)
  ELSE RDiv(num, denom)

\* float64 product and difference, nan-propagating
FMul(a, b) == IF IsNum(a) /\ IsNum(b) THEN RMul(a, b) ELSE NaN
FSub(a, b) == IF IsNum(a) /\ IsNum(b) THEN RSub(a, b) ELSE NaN

(***************************************************************************)
(* Vectors (pairs of numbers) and arrays of points (numpy arrays of shape  *)
(* (n, 2)): the array [den |-> d, num |-> rows] holds the points rows / d. *)
(***************************************************************************)
Pt(x, y) == <<RInt(x), RInt(y)>>
VZero == <<RZero, RZero>>
VAdd(u, v) == <<RAdd(u[1], v[1]), RAdd(u[2], v[2])>>
VSub(u, v) == <<RSub(u[1], v[1]), RSub(u[2], v[2])>>
VScale(r, v) == <<RMul(r, v[1]), RMul(r, v[2])>>
VDot(u, v) == RAdd(RMul(u[1], v[1]), RMul(u[2], v[2]))
VDen(v) == Lcm(v[1][2], v[2][2])
\* the integer row of vector v over the denominator d
VNum(v, d) == <<v[1][1] * (d \div v[1][2]), v[2][1] * (d \div v[2][2])>>

RECURSIVE Denominator(_)
Denominator(pts) ==
  IF pts = <<>> THEN 1 ELSE Lcm(VDen(Head(pts)), Denominator(Tail(pts)))

\* np.array(points) of a list of points
Array(pts) ==
  LET d == Denominator(pts)
  IN  [den |-> d, num |-> [i \in 1..Len(pts) |-> VNum(pts[i], d)]]

IntArray(rows) == [den |-> 1, num |-> rows]
Size(a) == Len(a.num)
Row(a, i) == <<Rat(a.num[i][1], a.den), Rat(a.num[i][2], a.den)>>
Rows(a) == [i \in 1..Size(a) |-> Row(a, i)]

RECURSIVE IntSum(_)
IntSum(rows) ==
  IF rows = <<>> THEN <<0, 0>>
  ELSE LET r == IntSum(Tail(rows))
       IN  <<Head(rows)[1] + r[1], Head(rows)[2] + r[2]>>

\* np.sum(points, axis=0)
VSum(a) == LET s == IntSum(a.num) IN <<Rat(s[1], a.den), Rat(s[2], a.den)>>

\* np.mean(points, axis=0)
VMean(a) ==
  LET s == IntSum(a.num)
  IN  <<Rat(s[1], a.den * Size(a)), Rat(s[2], a.den * Size(a))>>

\* points - centre, broadcast over the rows
Shift(a, c) ==
  LET d == Lcm(a.den, VDen(c))
      k == d \div a.den
      cn == VNum(c, d)
  IN  [den |-> d,
       num |-> [i \in 1..Size(a) |->
                  <<k * a.num[i][1] - cn[1], k * a.num[i][2] - cn[2]>>]]

\* the integer rows times k
Scaled(rows, k) ==
  IF k = 1 THEN rows
  ELSE [i \in 1..Len(rows) |-> <<k * rows[i][1], k * rows[i][2]>>]

\* np.concatenate((a, b))
Concatenate(a, b) ==
  LET d == Lcm(a.den, b.den)
  IN  [den |-> d,
       num |-> Scaled(a.num, d \div a.den) \o Scaled(b.num, d \div b.den)]

\* array[1:]
Rest(a) == [den |-> a.den, num |-> Tail(a.num)]

\* fault: take that leaves the rows in the stored order
TakeStoredOrder(a, perm) == a

\* array.take(permutation, axis=0); permutations hold 0-based indices
Take(a, perm) ==
  [den |-> a.den, num |-> [i \in 1..Len(perm) |-> a.num[perm[i] + 1]]]

RECURSIVE IntTensorDot(_, _)
IntTensorDot(A, B) ==
  IF A = <<>> THEN 0
  ELSE Head(A)[1] * Head(B)[1] + Head(A)[2] * Head(B)[2]
       + IntTensorDot(Tail(A), Tail(B))

\* np.tensordot(A, B): the sum over all entries of the entrywise product
TensorDot(A, B) == Rat(IntTensorDot(A.num, B.num), A.den * B.den)

(***************************************************************************)
(* AbstractGeometry                                                        *)
(***************************************************************************)
ValueErrorCentre ==
  "The center is the central site, no calculation of the centroid, variable include_central_site_in_centroid should be set to False"

\* fault: the centroid whatever the centering type is
CentroidCentre(central_site, bare_coords, centering_type, include_central_site_in_centroid) ==
  [raised |-> "",
   centre |->
     IF include_central_site_in_centroid
     THEN VScale(Rat(1, Size(bare_coords) + 1), VAdd(VSum(bare_coords), central_site))
     ELSE VScale(Rat(1, Size(bare_coords)), VSum(bare_coords))]

\* fault: the central site whatever the parameters are, without the check of
\* include_central_site_in_centroid
CentralSiteCentre(central_site, bare_coords, centering_type, include_central_site_in_centroid) ==
  [raised |-> "", centre |-> central_site]

\* the centre chosen by AbstractGeometry.__init__, or the ValueError it raises
AbstractGeometryCentre(central_site, bare_coords, centering_type, include_central_site_in_centroid) ==
  LET total == VSum(bare_coords)
      centroid ==
        IF include_central_site_in_centroid
        THEN VScale(Rat(1, Size(bare_coords) + 1), VAdd(total, central_site))
        ELSE VScale(Rat(1, Size(bare_coords)), total)
  IN  CASE centering_type = "standard" ->
             IF Size(bare_coords) < 5
             THEN IF include_central_site_in_centroid
                  THEN [raised |-> "ValueError", msg |-> ValueErrorCentre]
                  ELSE [raised |-> "", centre |-> central_site]
             ELSE [raised |-> "", centre |-> centroid]
        [] centering_type = "central_site" ->
             IF include_central_site_in_centroid
             THEN [raised |-> "ValueError", msg |-> ValueErrorCentre]
             ELSE [raised |-> "", centre |-> central_site]
        [] centering_type = "centroid" ->
             [raised |-> "", centre |-> centroid]

\* AbstractGeometry.__init__ after the centre c was found: the object built
AbstractGeometryAround(central_site, bare_coords, centering_type, include_central_site_in_centroid, c) ==
  LET bare_points_with_centre == Concatenate(Array(<<central_site>>), bare_coords)
      centroid_without_centre == VMean(bare_coords)
      centroid_with_centre == VMean(bare_points_with_centre)
  IN  [raised |-> "",
       bare_centre |-> central_site,
       bare_points_without_centre |-> bare_coords,
       bare_points_with_centre |-> bare_points_with_centre,
       centroid_without_centre |-> centroid_without_centre,
       centroid_with_centre |-> centroid_with_centre,
       _points_wcs_csc |-> Shift(bare_points_with_centre, central_site),
       _points_wocs_csc |-> Shift(bare_coords, central_site),
       _points_wcs_ctwcc |-> Shift(bare_points_with_centre, centroid_with_centre),
       _points_wocs_ctwcc |-> Shift(bare_coords, centroid_with_centre),
       _points_wcs_ctwocc |->
         Shift(bare_points_with_centre, centroid_without_centre),
       _points_wocs_ctwocc |-> Shift(bare_coords, centroid_without_centre),
       centering_type |-> centering_type,
       include_central_site_in_centroid |-> include_central_site_in_centroid,
       centre |-> c,
       coords |-> Shift(bare_coords, c),
       central_site |-> VSub(central_site, c)]

\* AbstractGeometry.__init__ with what the choice of the centre gave
AbstractGeometryWith(central_site, bare_coords, centering_type, include_central_site_in_centroid, c) ==
  IF c.raised # "" THEN c
  ELSE AbstractGeometryAround(central_site, bare_coords, centering_type,
                              include_central_site_in_centroid, c.centre)

\* AbstractGeometry.__init__: the object built, or the exception raised
AbstractGeometry(central_site, bare_coords, centering_type, include_central_site_in_centroid) ==
  AbstractGeometryWith(central_site, bare_coords, centering_type,
    include_central_site_in_centroid,
    AbstractGeometryCentre(central_site, bare_coords, centering_type,
                           include_central_site_in_centroid))

(***************************************************************************)
(* The six coordinate views of an AbstractGeometry.  A view is returned    *)
(* with its name: wcs/wocs = with/without the central site, csc = centred  *)
(* on the central site, ctwcc/ctwocc = centred on the centroid computed    *)
(* with/without the central site.  A permutation of None gives the stored  *)
(* order.                                                                  *)
(***************************************************************************)
NoPerm == <<-1>>

\* array[:1]
First(a) == [den |-> a.den, num |-> <<Head(a.num)>>]

points_wcs_csc(g, permutation) ==
  [view |-> "wcs_csc",
   pts |-> IF permutation = NoPerm THEN g._points_wcs_csc
           ELSE Concatenate(First(g._points_wcs_csc),
                            Take(g._points_wocs_csc, permutation))]

points_wocs_csc(g, permutation) ==
  [view |-> "wocs_csc",
   pts |-> IF permutation = NoPerm THEN g._points_wocs_csc
           ELSE Take(g._points_wocs_csc, permutation)]

points_wcs_ctwcc(g, permutation) ==
  [view |-> "wcs_ctwcc",
   pts |-> IF permutation = NoPerm THEN g._points_wcs_ctwcc
           ELSE Concatenate(First(g._points_wcs_ctwcc),
                            Take(g._points_wocs_ctwcc, permutation))]

points_wocs_ctwcc(g, permutation) ==
  [view |-> "wocs_ctwcc",
   pts |-> IF permutation = NoPerm THEN g._points_wocs_ctwcc
           ELSE Take(g._points_wocs_ctwcc, permutation)]

points_wcs_ctwocc(g, permutation) ==
  [view |-> "wcs_ctwocc",
   pts |-> IF permutation = NoPerm THEN g._points_wcs_ctwocc
           ELSE Concatenate(First(g._points_wcs_ctwocc),
                            Take(g._points_wocs_ctwocc, permutation))]

points_wocs_ctwocc(g, permutation) ==
  [view |-> "wocs_ctwocc",
   pts |-> IF permutation = NoPerm THEN g._points_wocs_ctwocc
           ELSE Take(g._points_wocs_ctwocc, permutation)]

(***************************************************************************)
(* symmetry_measure, find_rotation, find_scaling_factor.                   *)
(*                                                                         *)
(* H = points_distorted^T . points_perfect is a 2x2 matrix here.  With     *)
(* H = U S Vt, find_rotation returns rot = Vt^T U^T, for which             *)
(*   np.tensordot(rot.D, P) = trace(rot H) = trace(S) = s1 + s2,           *)
(* the sum of the singular values of H, and for a 2x2 matrix               *)
(*   (s1 + s2)^2 = s1^2 + s2^2 + 2 s1 s2 = |H|_F^2 + 2 |det H|.            *)
(* s1 + s2 is irrational in general, so the rotation is carried by the     *)
(* square of the alignment it reaches and the scaling factor by its        *)
(* square; the measure itself is rational.                                 *)
(***************************************************************************)
\* np.matmul(points_distorted.T, points_perfect), on the integer rows
RECURSIVE CrossCovariance(_, _)
CrossCovariance(D, P) ==
  IF D = <<>> THEN <<<<0, 0>>, <<0, 0>>>>
  ELSE LET r == CrossCovariance(Tail(D), Tail(P))
           d == Head(D)
           q == Head(P)
       IN  <<<<r[1][1] + d[1] * q[1], r[1][2] + d[1] * q[2]>>,
             <<r[2][1] + d[2] * q[1], r[2][2] + d[2] * q[2]>>>>

\* (s1 + s2)^2 for the singular values s1, s2 of H
SigmaSumSq(H) ==
  H[1][1] * H[1][1] + H[1][2] * H[1][2] + H[2][1] * H[2][1] + H[2][2] * H[2][2]
  + 2 * Abs(H[1][1] * H[2][2] - H[1][2] * H[2][1])

\* fault: no rotation, rot = identity, for which trace(rot H) = trace(H)
find_rotation_identity(points_distorted, points_perfect) ==
  LET H == CrossCovariance(points_distorted.num, points_perfect.num)
      d == points_distorted.den * points_perfect.den
  IN  [trace_rot_H_sq |-> Rat((H[1][1] + H[2][2]) * (H[1][1] + H[2][2]), d * d)]

\* the rotation Vt^T U^T of the SVD of H, carried by trace(rot H)^2
find_rotation(points_distorted, points_perfect) ==
  LET H == CrossCovariance(points_distorted.num, points_perfect.num)
      d == points_distorted.den * points_perfect.den
  IN  [trace_rot_H_sq |-> Rat(SigmaSumSq(H), d * d)]

\* num / denom with num = tensordot(rot.D, P) = trace(rot H) and
\* denom = tensordot(rot.D, rot.D) = tensordot(D, D); returned squared
find_scaling_factor(points_distorted, points_perfect, rot) ==
  LET num_sq == rot.trace_rot_H_sq
      denom == TensorDot(points_distorted, points_distorted)
  IN  [scaling_factor_sq |-> FDiv(FDiv(num_sq, denom), denom),
       \* scaling_factor * tensordot(rot.D, P) and scaling_factor^2 * denom
       scaled_dot |-> FDiv(num_sq, denom)]

\* fault: the alignment computed for a single point too
symmetry_measure_always_aligned(points_distorted, points_perfect) ==
  LET D == points_distorted.pts
      P == points_perfect.pts
      rot == find_rotation(D, P)
      sf == find_scaling_factor(D, P, rot)
      denom == TensorDot(P, P)
      num == FSub(denom, sf.scaled_dot)
  IN  [symmetry_measure |-> FMul(FDiv(num, denom), RInt(100)),
       scaling_factor_sq |-> sf.scaling_factor_sq,
       rotation_matrix |-> rot.trace_rot_H_sq,
       views |-> <<points_distorted.view, points_perfect.view>>]

symmetry_measure(points_distorted, points_perfect) ==
  IF Size(points_distorted.pts) = 1
  THEN [symmetry_measure |-> RZero, scaling_factor_sq |-> None,
        rotation_matrix |-> None,
        views |-> <<points_distorted.view, points_perfect.view>>]
  ELSE LET D == points_distorted.pts
           P == points_perfect.pts
           rot == find_rotation(D, P)
           sf == find_scaling_factor(D, P, rot)
           denom == TensorDot(P, P)
           \* tensordot(diff, diff) for diff = P - scaling_factor * rot.D:
           \* |P|^2 - 2 s trace(rot H) + s^2 |D|^2 = |P|^2 - trace(rot H)^2 / |D|^2
           num == FSub(denom, sf.scaled_dot)
       IN  [symmetry_measure |-> FMul(FDiv(num, denom), RInt(100)),
            scaling_factor_sq |-> sf.scaling_factor_sq,
            rotation_matrix |-> rot.trace_rot_H_sq,
            views |-> <<points_distorted.view, points_perfect.view>>]

(***************************************************************************)
(* Planes, collinearity and separations                                    *)
(* (pymatgen.analysis.chemenv.utils.coordination_geometry_utils).          *)
(*                                                                         *)
(* The points of the model lie in the plane z = 0, so the plane through    *)
(* three points that are not collinear, and the least-square plane of      *)
(* more points that are not all collinear, is that plane: its normal       *)
(* vector is (0, 0, 1) (the first non-zero component of a normal vector is *)
(* made positive) and every point is at distance 0 from it.  A plane is    *)
(* held by the in-plane direction e1 = p2 - p1 of its orthonormal frame    *)
(* (e1, e2, e3) with e3 the normal vector and e2 = e3 x e1.  Three points  *)
(* that span no plane and pass the collinearity test (two of them          *)
(* coincide) give a normal vector 0 / 0 and distances that are nan.  The   *)
(* least-square plane of collinear points is not determined; the           *)
(* structures of the model hold no four collinear neighbors.  Points are   *)
(* integer rows over one denominator.                                      *)
(***************************************************************************)
Cross(u, v) == u[1] * v[2] - u[2] * v[1]
Dot(u, v) == u[1] * v[1] + u[2] * v[2]
Minus(u, v) == <<u[1] - v[1], u[2] - v[2]>>
NormSq(u) == Dot(u, u)

Min2(a, b) == IF a <= b THEN a ELSE b
Max2(a, b) == IF a >= b THEN a ELSE b

collinear_tolerance == <<1, 4>>

\* collinear(p1, p2, p3, tolerance): the area of the triangle is less than
\* tolerance times the area of the right triangle whose legs are the two
\* smallest of the three distances; compared on the squares
collinear(p1, p2, p3, tolerance) ==
  LET cross == Cross(Minus(p1, p3), Minus(p2, p3))
      a == NormSq(Minus(p2, p1))
      b == NormSq(Minus(p3, p1))
      c == NormSq(Minus(p3, p2))
      largest == Max2(a, Max2(b, c))
      \* the product of the two smallest squared distances
      legs == IF largest = a THEN b * c ELSE IF largest = b THEN a * c ELSE a * b
  IN  tolerance[2] * tolerance[2] * cross * cross < tolerance[1] * tolerance[1] * legs

\* Plane.from_3points(p1, p2, p3)
from_3points(p1, p2, p3) ==
  [e1 |-> Minus(p2, p1), degenerate |-> Cross(Minus(p1, p3), Minus(p2, p3)) = 0,
   normal_vector |-> <<0, 0>>, d |-> RZero]

\* Plane.from_npoints(points, best_fit="least_square_distance"): the frame of a
\* plane built from its coefficients alone has e1 along the x axis
from_npoints(points) ==
  [e1 |-> <<1, 0>>, degenerate |-> FALSE, normal_vector |-> <<0, 0>>, d |-> RZero]

\* Plane(np.array([a, b, 0, d])) with a unit normal vector (a, b, 0) along an
\* axis of the plane z = 0: the plane stands on the plane of the points and
\* cuts it along the line a x + b y + d = 0
VerticalPlane(a, b, d) ==
  [e1 |-> <<b, a>>, degenerate |-> FALSE, skipped |-> FALSE,
   normal_vector |-> <<a, b>>, d |-> d]

\* np.dot(normal_vector, pp) + d: the signed distance of pp to the plane
PlaneDistance(plane, pp) ==
  IF plane.degenerate THEN NaN
  ELSE IF plane.normal_vector = <<0, 0>> THEN RZero
  ELSE RAdd(RInt(Dot(plane.normal_vector, pp)), plane.d)

\* Plane.is_in_plane(pp, dist_tolerance)
is_in_plane(plane, pp, dist_tolerance) ==
  LET distance == PlaneDistance(plane, pp)
  IN  IsNum(distance) /\ RLeq(RAbs(distance), dist_tolerance)

\* the 0-based indices ip < n for which Test(ip) holds, ascending
IndicesFrom(Test(_), ip, n) == SelectSeq([i \in 1..(n - ip) |-> ip + i - 1], Test)

\* Plane.indices_separate(points, dist_tolerance): [side1, inplane, side2]
indices_separate(plane, points, dist_tolerance) ==
  LET InPlane(ip) == is_in_plane(plane, points[ip + 1], dist_tolerance)
      Negative(ip) == LET distance == PlaneDistance(plane, points[ip + 1])
                      IN  IsNum(distance) /\ RLt(distance, RZero)
      Side1(ip) == ~InPlane(ip) /\ Negative(ip)
      Side2(ip) == ~InPlane(ip) /\ ~Negative(ip)
  IN  <<IndicesFrom(Side1, 0, Len(points)),
        IndicesFrom(InPlane, 0, Len(points)),
        IndicesFrom(Side2, 0, Len(points))>>

\* sorted(indices)
Sorted(indices) == SortSeq(indices, LAMBDA a, b : a < b)

\* sort_separation(separation): the groups sorted, the smaller side first
sort_separation(separation) ==
  IF Len(separation[1]) > Len(separation[3])
  THEN <<Sorted(separation[3]), Sorted(separation[2]), Sorted(separation[1])>>
  ELSE <<Sorted(separation[1]), Sorted(separation[2]), Sorted(separation[3])>>

\* sort_separation_tuple(separation): the same, as a tuple of tuples
sort_separation_tuple(separation) == sort_separation(separation)

\* separation_in_list(separation_indices, separation_indices_list): a separation
\* of the list has the same in-plane indices
separation_in_list(separation_indices, separation_indices_list) ==
  LET sorted_separation == sort_separation(separation_indices)
  IN  \E k \in 1..Len(separation_indices_list) :
        separation_indices_list[k][2] = sorted_separation[2]

\* whether np.arctan2(a[2], a[1]) < np.arctan2(b[2], b[1]): the angles lie in
\* (-pi, pi], and arctan2(0, 0) = 0
AngleClass(a) ==
  IF a[2] < 0 THEN 1
  ELSE IF a[2] = 0 /\ a[1] >= 0 THEN 2
  ELSE IF a[2] > 0 THEN 3
  ELSE 4

AngleLess(a, b) ==
  \/ AngleClass(a) < AngleClass(b)
  \/ /\ AngleClass(a) = AngleClass(b)
     /\ AngleClass(a) \in {1, 3}
     /\ Cross(a, b) > 0

\* Plane.project_and_to2dim_ordered_indices(pps): the argsort of the polar
\* angles of the points in the frame (e1, e2), about their mean
project_and_to2dim_ordered_indices(plane, pps) ==
  LET n == Len(pps)
      total == IntSum(pps)
      \* n * (pp - mean) in the frame: (v . e1, v . e2) with e2 = e3 x e1
      xy(i) == LET v == <<n * pps[i][1] - total[1], n * pps[i][2] - total[2]>>
               IN  <<Dot(v, plane.e1), Cross(plane.e1, v)>>
      xypps == [i \in 1..n |-> xy(i)]
      Before(i, j) == \/ AngleLess(xypps[i + 1], xypps[j + 1])
                      \/ ~AngleLess(xypps[j + 1], xypps[i + 1]) /\ i < j
  IN  SortSeq([i \in 1..n |-> i - 1], Before)

\* int(np.sign(distance))
Sign(distance) == IF distance[1] > 0 THEN 1 ELSE IF distance[1] < 0 THEN -1 ELSE 0

\* Plane.distances_indices_sorted(points)[1]: the indices sorted by the
\* absolute value of their distance to the plane, equal ones in their order
distances_indices_sorted(plane, points) ==
  LET AbsDistance(ip) == RAbs(PlaneDistance(plane, points[ip + 1]))
  IN  SortSeq([i \in 1..Len(points) |-> i - 1],
              LAMBDA a, b : \/ RLt(AbsDistance(a), AbsDistance(b))
                            \/ AbsDistance(a) = AbsDistance(b) /\ a < b)

\* Plane.distances_indices_groups(points, delta_factor, sign=True)[2]: the
\* indices sorted by their distance to the plane, each with the sign of its
\* distance, in groups that a gap of more than delta_factor times the largest
\* distance separates
distances_indices_groups(plane, points, delta_factor) ==
  LET indices == distances_indices_sorted(plane, points)
      n == Len(indices)
      AbsDistance(k) == RAbs(PlaneDistance(plane, points[indices[k] + 1]))
      delta == RMul(delta_factor, AbsDistance(n))
      IsEnd(ii) == \/ ii = n
                   \/ RLt(delta, RSub(AbsDistance(ii + 1), AbsDistance(ii)))
      iends == SelectSeq([ii \in 1..n |-> ii], IsEnd)
      Signed(k) == <<indices[k], Sign(PlaneDistance(plane, points[indices[k] + 1]))>>
  IN  [g \in 1..Len(iends) |->
         LET first == IF g = 1 THEN 1 ELSE iends[g - 1] + 1
         IN  [k \in 1..(iends[g] - first + 1) |-> Signed(first + k - 1)]]
(***************************************************************************)
(* The reference geometries (coordination_geometries.py).  The records of  *)
(* the catalog are read from data files; the catalog of the model holds    *)
(* the planar reference geometries with rational coordinates.              *)
(***************************************************************************)
UNKNOWN_ENVIRONMENT_SYMBOL == "UNKNOWN"
UNCLEAR_ENVIRONMENT_SYMBOL == "UNCLEAR"
EXPLICIT_PERMUTATIONS == "EXPLICIT_PERMUTATIONS"
SEPARATION_PLANE == "SEPARATION_PLANE"

\* points = None and coordination = None of a geometry that is not implemented
NoPoints == <<>>
NoCoordination == -1

ExplicitPermutationsAlgorithm(permutations) ==
  [raised |-> "", algorithm_type |-> EXPLICIT_PERMUTATIONS,
   permutations |-> permutations]

\* np.argsort(values) of distinct integers, 0-based
ArgSort(values) ==
  SortSeq([i \in 1..Len(values) |-> i - 1],
          LAMBDA i, j : values[i + 1] < values[j + 1])

RuntimeErrorGroups ==
  "The number of points in the first group should be\nless than or equal to the number of points in the second group"

\* the algorithm built whatever the sizes of the groups
SeparationPlaneUnchecked(plane_points, ordered_plane, point_groups, ordered_point_groups, explicit_permutations, minimum_number_of_points) ==
  [raised |-> "",
   algorithm_type |-> SEPARATION_PLANE,
   plane_points |-> plane_points,
   point_groups |-> point_groups,
   ordered_plane |-> ordered_plane,
   ordered_point_groups |-> ordered_point_groups,
   permutations |-> explicit_permutations,
   minimum_number_of_points |-> minimum_number_of_points,
   maximum_number_of_points |-> Len(plane_points),
   argsorted_ref_separation_perm |->
     ArgSort(point_groups[1] \o plane_points \o point_groups[2]),
   separation |->
     <<Len(point_groups[1]), Len(plane_points), Len(point_groups[2])>>]

\* SeparationPlane.__init__: the algorithm built, or the exception raised
SeparationPlane(plane_points, ordered_plane, point_groups, ordered_point_groups, explicit_permutations, minimum_number_of_points) ==
  IF Len(point_groups[1]) > Len(point_groups[2])
  THEN [raised |-> "RuntimeError", msg |-> RuntimeErrorGroups]
  ELSE [raised |-> "",
        algorithm_type |-> SEPARATION_PLANE,
        plane_points |-> plane_points,
        point_groups |-> point_groups,
        ordered_plane |-> ordered_plane,
        ordered_point_groups |-> ordered_point_groups,
        permutations |-> explicit_permutations,
        minimum_number_of_points |-> minimum_number_of_points,
        maximum_number_of_points |-> Len(plane_points),
        argsorted_ref_separation_perm |->
          ArgSort(point_groups[1] \o plane_points \o point_groups[2]),
        separation |->
          <<Len(point_groups[1]), Len(plane_points), Len(point_groups[2])>>]

\* NeighborsSetsHints.__init__
NeighborsSetsHints(hints_type, options) ==
  [hints_type |-> hints_type, options |-> options]

\* list.remove(value): the list without the first value
ListRemove(list, value) ==
  LET at == CHOOSE k \in 1..Len(list) :
              list[k] = value /\ \A j \in 1..(k - 1) : list[j] # value
  IN  [k \in 1..(Len(list) - 1) |-> IF k < at THEN list[k] ELSE list[k + 1]]

\* nb_set.get_neighb_voronoi_indices(permutation)
get_neighb_voronoi_indices(nb_set, permutation) ==
  [k \in 1..Len(permutation) |-> nb_set.site_voronoi_indices[permutation[k] + 1]]

\* the Voronoi index of the neighbor that sits on the point index_perfect of
\* the geometry
CapVoronoiIndex(hints_info, index_perfect) ==
  get_neighb_voronoi_indices(hints_info.nb_set, hints_info.permutation)[index_perfect + 1]

\* NeighborsSetsHints.single_cap_hints
single_cap_hints(self, hints_info) ==
  <<ListRemove(hints_info.nb_set.site_voronoi_indices,
               CapVoronoiIndex(hints_info, self.options.cap_index))>>

\* NeighborsSetsHints.double_cap_hints
double_cap_hints(self, hints_info) ==
  LET indices == hints_info.nb_set.site_voronoi_indices
      first == CapVoronoiIndex(hints_info, self.options.first_cap_index)
      second == CapVoronoiIndex(hints_info, self.options.second_cap_index)
  IN  <<ListRemove(indices, first),
        ListRemove(indices, second),
        ListRemove(ListRemove(indices, first), second)>>

\* NeighborsSetsHints.triple_cap_hints
triple_cap_hints(self, hints_info) ==
  LET indices == hints_info.nb_set.site_voronoi_indices
      first == CapVoronoiIndex(hints_info, self.options.first_cap_index)
      second == CapVoronoiIndex(hints_info, self.options.second_cap_index)
      third == CapVoronoiIndex(hints_info, self.options.third_cap_index)
  IN  <<ListRemove(indices, first),
        ListRemove(indices, second),
        ListRemove(indices, third),
        ListRemove(ListRemove(indices, second), third),
        ListRemove(ListRemove(indices, first), third),
        ListRemove(ListRemove(indices, first), second),
        ListRemove(ListRemove(ListRemove(indices, first), second), third)>>

\* NeighborsSetsHints.hints: hints_info["csm"] > csm_max is False for nan
hints(self, hints_info) ==
  IF /\ IsNum(hints_info.csm)
     /\ ~RLeq(hints_info.csm, self.options.csm_max)
  THEN <<>>
  ELSE CASE self.hints_type = "single_cap" -> single_cap_hints(self, hints_info)
         [] self.hints_type = "double_cap" -> double_cap_hints(self, hints_info)
         [] self.hints_type = "triple_cap" -> triple_cap_hints(self, hints_info)

\* neighbors_sets_hints=None
NoHints == <<>>

CoordinationGeometry(mp_symbol, coordination, points, deactivate, algorithms) ==
  [mp_symbol |-> mp_symbol,
   coordination |-> coordination,
   central_site |-> VZero,
   points |-> points,
   deactivate |-> deactivate,
   algorithms |-> algorithms,
   neighbors_sets_hints |-> NoHints]

\* the csm_max of the hints of the geometry files
HintsCsmMax == RInt(20)

\* the geometry cg of a file that holds neighbors_sets_hints
WithHints(cg, neighbors_sets_hints) ==
  [cg EXCEPT !.neighbors_sets_hints = neighbors_sets_hints]

\* the geometry files, in the order of allcg.txt
AllCgTxt == <<"S:1", "L:2", "A:2", "TY:3", "TS:3", "S:4", "H:6", "R:6">>

CoordinationGeometryFile(symbol) ==
  CASE symbol = "S:1" ->
         CoordinationGeometry("S:1", 1, <<Pt(0, 1)>>, FALSE,
           <<ExplicitPermutationsAlgorithm(<<<<0>>>>)>>)
    [] symbol = "L:2" ->
         CoordinationGeometry("L:2", 2, <<Pt(0, 1), Pt(0, -1)>>, FALSE,
           <<ExplicitPermutationsAlgorithm(<<<<0, 1>>>>)>>)
    [] symbol = "A:2" ->
         CoordinationGeometry("A:2", 2, <<Pt(1, 0), Pt(0, 1)>>, FALSE,
           <<ExplicitPermutationsAlgorithm(<<<<0, 1>>>>)>>)
    [] symbol = "TY:3" ->
         CoordinationGeometry("TY:3", 3, <<Pt(-1, 0), Pt(1, 0), Pt(0, 2)>>, TRUE,
           <<ExplicitPermutationsAlgorithm(
               <<<<0, 1, 2>>, <<0, 2, 1>>, <<1, 2, 0>>>>)>>)
    [] symbol = "TS:3" ->
         WithHints(
           CoordinationGeometry("TS:3", 3, <<Pt(-1, 0), Pt(1, 0), Pt(0, 1)>>, FALSE,
             <<ExplicitPermutationsAlgorithm(
                 <<<<0, 1, 2>>, <<0, 2, 1>>, <<1, 2, 0>>>>)>>),
           <<NeighborsSetsHints("single_cap",
               [csm_max |-> HintsCsmMax, cap_index |-> 2])>>)
    [] symbol = "S:4" ->
         WithHints(
           CoordinationGeometry("S:4", 4,
             <<Pt(1, 0), Pt(-1, 0), Pt(0, 1), Pt(0, -1)>>, FALSE,
             <<ExplicitPermutationsAlgorithm(
                 <<<<0, 1, 2, 3>>, <<0, 2, 1, 3>>, <<0, 3, 1, 2>>>>)>>),
           <<NeighborsSetsHints("double_cap",
               [csm_max |-> HintsCsmMax, first_cap_index |-> 2,
                second_cap_index |-> 3])>>)
    [] symbol = "H:6" ->
         CoordinationGeometry("H:6", 6,
           <<Pt(2, 0), Pt(1, 1), Pt(-1, 1), Pt(-2, 0), Pt(-1, -1), Pt(1, -1)>>, FALSE,
           <<SeparationPlane(<<0, 1, 2, 3, 4, 5>>, TRUE, <<<<>>, <<>>>>, <<FALSE, FALSE>>,
               <<<<0, 1, 2, 3, 4, 5>>, <<1, 2, 3, 4, 5, 0>>, <<2, 3, 4, 5, 0, 1>>>>, 3),
             SeparationPlane(<<0, 2, 4>>, FALSE, <<<<1>>, <<3, 5>>>>, <<FALSE, FALSE>>,
               <<<<0, 1, 2, 3, 4, 5>>, <<0, 1, 2, 3, 5, 4>>>>, 3)>>)
    [] symbol = "R:6" ->
         WithHints(
           CoordinationGeometry("R:6", 6,
             <<Pt(2, 0), Pt(1, 2), Pt(-1, 2), Pt(-2, 0), Pt(-1, -2), Pt(1, -2)>>, FALSE,
             <<SeparationPlane(<<0, 1, 2, 3, 4, 5>>, TRUE, <<<<>>, <<>>>>, <<FALSE, FALSE>>,
                 <<<<0, 1, 2, 3, 4, 5>>, <<1, 2, 3, 4, 5, 0>>, <<2, 3, 4, 5, 0, 1>>>>, 3)>>),
           <<NeighborsSetsHints("triple_cap",
               [csm_max |-> HintsCsmMax, first_cap_index |-> 0,
                second_cap_index |-> 2, third_cap_index |-> 4])>>)

\* only_symbols = None
AllSymbols == <<"*">>

\* get_implemented_geometries(coordination, include_deactivated=True)
get_implemented_geometries_include_deactivated(allcg, coordination) ==
  LET Test(coord_geom) ==
        /\ coord_geom.coordination = coordination
        /\ coord_geom.points # NoPoints
  IN  SelectSeq(allcg.cg_list, Test)

\* AllCoordinationGeometries.get_implemented_geometries(coordination)
get_implemented_geometries(allcg, coordination) ==
  LET Test(coord_geom) ==
        /\ coord_geom.coordination = coordination
        /\ coord_geom.points # NoPoints
        /\ ~coord_geom.deactivate
  IN  SelectSeq(allcg.cg_list, Test)

\* the coordination numbers for which __init__ collects the separations
MinSeparationCn == 6
MaxSeparationCn == 20

\* the separation planes of the implemented geometries of coordination cn,
\* over which __init__ loops to fill minpoints, maxpoints and separations_cg
SeparationAlgorithms(cg_list, cn) ==
  LET cgs == get_implemented_geometries([cg_list |-> cg_list], cn)
      RECURSIVE AlgorithmsFrom(_)
      AlgorithmsFrom(k) ==
        IF k > Len(cgs) THEN <<>> ELSE cgs[k].algorithms \o AlgorithmsFrom(k + 1)
  IN  AlgorithmsFrom(1)

RECURSIVE FoldMin(_, _)
FoldMin(values, start) ==
  IF values = <<>> THEN start ELSE FoldMin(Tail(values), Min2(start, Head(values)))

RECURSIVE FoldMax(_, _)
FoldMax(values, start) ==
  IF values = <<>> THEN start ELSE FoldMax(Tail(values), Max2(start, Head(values)))

\* AllCoordinationGeometries.__init__
AllCoordinationGeometries(only_symbols) ==
  LET symbols == IF only_symbols = AllSymbols THEN AllCgTxt ELSE only_symbols
      cg_list ==
        [i \in 1..Len(symbols) |-> CoordinationGeometryFile(symbols[i])]
        \o <<CoordinationGeometry(UNKNOWN_ENVIRONMENT_SYMBOL, NoCoordination,
                                  NoPoints, TRUE, <<>>),
             CoordinationGeometry(UNCLEAR_ENVIRONMENT_SYMBOL, NoCoordination,
                                  NoPoints, TRUE, <<>>)>>
      cns == {cn \in MinSeparationCn..MaxSeparationCn :
                get_implemented_geometries([cg_list |-> cg_list], cn) # <<>>}
      algos(cn) == SeparationAlgorithms(cg_list, cn)
      seps(cn) == {algos(cn)[k].separation : k \in 1..Len(algos(cn))}
  IN  [cg_list |-> cg_list,
       minpoints |->
         [cn \in cns |->
            FoldMin([k \in 1..Len(algos(cn)) |-> algos(cn)[k].minimum_number_of_points],
                    1000)],
       maxpoints |->
         [cn \in cns |->
            FoldMax([k \in 1..Len(algos(cn)) |-> algos(cn)[k].maximum_number_of_points],
                    0)],
       separations_cg |-> [cn \in cns |-> seps(cn)],
       maxpoints_inplane |->
         [cn \in cns |-> CHOOSE m \in {sep[2] : sep \in seps(cn)} :
                           \A sep \in seps(cn) : sep[2] <= m]]

\* AllCoordinationGeometries.get_geometry_from_mp_symbol
get_geometry_from_mp_symbol(allcg, mp_symbol) ==
  LET found == {i \in 1..Len(allcg.cg_list) : allcg.cg_list[i].mp_symbol = mp_symbol}
  IN  IF found = {} THEN [raised |-> "LookupError"]
      ELSE [raised |-> "",
            cg |-> allcg.cg_list[CHOOSE i \in found : \A j \in found : i <= j]]

\* AbstractGeometry.from_cg
from_cg(cg, centering_type, include_central_site_in_centroid) ==
  AbstractGeometry(cg.central_site, Array(cg.points), centering_type,
                   include_central_site_in_centroid)
(***************************************************************************)
(* LocalGeometryFinder: the permutation searches.  self is the record of   *)
(* the attributes of the finder that the searches read.                    *)
(***************************************************************************)
\* perfect2local_map[iperfect] = ii for iperfect, ii in enumerate(perm)
Perfect2LocalMap(perm) == [iperfect \in 0..(Len(perm) - 1) |-> perm[iperfect + 1]]

\* fault: local2perfect_map[iperfect] = ii
Local2PerfectMapForward(perm) == [iperfect \in 0..(Len(perm) - 1) |-> perm[iperfect + 1]]

\* local2perfect_map[ii] = iperfect in the same loop: the last assignment stays
Local2PerfectMap(perm) ==
  [ii \in {perm[k] : k \in 1..Len(perm)} |->
     (CHOOSE k \in 1..Len(perm) :
        perm[k] = ii /\ \A m \in 1..Len(perm) : perm[m] = ii => m <= k) - 1]

\* sm_info["translation_vector"] = ...
WithTranslationVector(sm_info, translation_vector) ==
  [symmetry_measure |-> sm_info.symmetry_measure,
   scaling_factor_sq |-> sm_info.scaling_factor_sq,
   rotation_matrix |-> sm_info.rotation_matrix,
   views |-> sm_info.views,
   translation_vector |-> translation_vector]

\* fault: the local points taken without the central site
PermutationMeasureWithoutCentre(self, perm, points_perfect) ==
  WithTranslationVector(
    symmetry_measure(points_wocs_ctwcc(self.local_geometry, perm), points_perfect),
    self.local_geometry.centroid_with_centre)

\* the measure of the local geometry reordered by perm, as every search takes it
PermutationMeasure(self, perm, points_perfect) ==
  WithTranslationVector(
    symmetry_measure(points_wcs_ctwcc(self.local_geometry, perm), points_perfect),
    self.local_geometry.centroid_with_centre)

\* the five lists every search returns
SearchResult(permutations_symmetry_measures, permutations, algos) ==
  [permutations_symmetry_measures |-> permutations_symmetry_measures,
   permutations |-> permutations,
   algos |-> algos,
   local2perfect_maps |->
     [i \in 1..Len(permutations) |-> Local2PerfectMap(permutations[i])],
   perfect2local_maps |->
     [i \in 1..Len(permutations) |-> Perfect2LocalMap(permutations[i])]]

EmptySearchResult == SearchResult(<<>>, <<>>, <<>>)

\* csms.extend(csm); permutations.extend(perm); ...
ExtendSearchResult(a, b) ==
  [permutations_symmetry_measures |->
     a.permutations_symmetry_measures \o b.permutations_symmetry_measures,
   permutations |-> a.permutations \o b.permutations,
   algos |-> a.algos \o b.algos,
   local2perfect_maps |-> a.local2perfect_maps \o b.local2perfect_maps,
   perfect2local_maps |-> a.perfect2local_maps \o b.perfect2local_maps]

\* fault: the loop left after the first permutation
FirstPermutationOnly(self, algo, points_perfect) ==
  SearchResult(
    <<PermutationMeasure(self, algo.permutations[1], points_perfect)>>,
    <<algo.permutations[1]>>,
    <<algo.algorithm_type>>)

\* the loop over algo.permutations
StandardPermutationsLoop(self, algo, points_perfect) ==
  SearchResult(
    [idx \in 1..Len(algo.permutations) |->
       PermutationMeasure(self, algo.permutations[idx], points_perfect)],
    algo.permutations,
    [idx \in 1..Len(algo.permutations) |-> algo.algorithm_type])

coordination_geometry_symmetry_measures_standard(self, coordination_geometry, algo, points_perfect, optimization) ==
  \* the branches of "if optimization == 2" hold the same loop
  StandardPermutationsLoop(self, algo, points_perfect)

\* rng.permutation(n) for draw idx of a generator: the generator is seeded from
\* the operating system, so the stream of a call is any one of the streams;
\* the streams of the model draw the rotations of 0..n-1 and their reversals
RngPermutation(rng, idx, n) ==
  LET shift == rng.start + rng.step * idx
  IN  [i \in 1..n |-> IF rng.reverse THEN (shift + n * i - (i - 1)) % n
                      ELSE (shift + (i - 1)) % n]

\* fault: no permutation drawn
NoFallback(self, coordination_geometry, n_random, points_perfect, rng) ==
  EmptySearchResult

n_random_default == 10

coordination_geometry_symmetry_measures_fallback_random(self, coordination_geometry, n_random, points_perfect, rng) ==
  LET perm(idx) == RngPermutation(rng, idx, coordination_geometry.coordination)
  IN  SearchResult(
        [idx \in 1..n_random |-> PermutationMeasure(self, perm(idx - 1), points_perfect)],
        [idx \in 1..n_random |-> perm(idx - 1)],
        [idx \in 1..n_random |-> "APPROXIMATE_FALLBACK"])
(***************************************************************************)
(* LocalGeometryFinder: the searches with separation planes.               *)
(***************************************************************************)
DIST_TOLERANCES == <<Rat(1, 50), Rat(1, 20), Rat(1, 10), Rat(1, 5), Rat(3, 10)>>

\* itertools.combinations(range(first, n), k), in the order itertools yields
RECURSIVE Combinations(_, _, _)
Combinations(first, n, k) ==
  IF k = 0 THEN <<<<>>>>
  ELSE IF n - first < k THEN <<>>
  ELSE LET sub == Combinations(first + 1, n, k - 1)
       IN  [i \in 1..Len(sub) |-> <<first>> \o sub[i]] \o Combinations(first + 1, n, k)

\* the central site (row 1) and the neighbors (rows 2 ..) of the centred local
\* geometry as integer rows over one denominator: what the planes are built of
PlanePoints(g) == Concatenate(Array(<<g.central_site>>), g.coords).num

NoPlane ==
  [e1 |-> <<0, 0>>, degenerate |-> TRUE, skipped |-> TRUE,
   normal_vector |-> <<0, 0>>, d |-> RZero]

\* the plane of the combination ipoints_combination of neighbors, as both
\* searches build it, points being PlanePoints of the local geometry; NoPlane
\* when the collinearity test skips the combination
LocalPlane(points, ipoints_combination) ==
  LET central_site == points[1]
      points_combination ==
        [i \in 1..Len(ipoints_combination) |-> points[ipoints_combination[i] + 2]]
      npoints == Len(ipoints_combination)
      Built(plane) == [e1 |-> plane.e1, degenerate |-> plane.degenerate,
                       skipped |-> FALSE, normal_vector |-> plane.normal_vector,
                       d |-> plane.d]
  IN  IF npoints = 2
      THEN IF collinear(points_combination[1], points_combination[2], central_site,
                        collinear_tolerance)
           THEN NoPlane
           ELSE Built(from_3points(points_combination[1], points_combination[2],
                                   central_site))
      ELSE IF npoints = 3
      THEN IF collinear(points_combination[1], points_combination[2],
                        points_combination[3], collinear_tolerance)
           THEN NoPlane
           ELSE Built(from_3points(points_combination[1], points_combination[2],
                                   points_combination[3]))
      ELSE Built(from_npoints(points_combination))

\* [pp for ip, pp in enumerate(self.local_geometry._coords) if ip in indices],
\* as integer rows over the denominator of coords
EnumeratePoints(g, indices) ==
  LET points == g.coords.num
      In(ip) == \E k \in 1..Len(indices) : indices[k] = ip
      kept == IndicesFrom(In, 0, Len(points))
  IN  [k \in 1..Len(kept) |-> points[kept[k] + 1]]

\* self.local_geometry.coords.take(indices, axis=0)
TakePoints(g, indices) ==
  LET points == g.coords.num
  IN  [k \in 1..Len(indices) |-> points[indices[k] + 1]]

\* one group of separation_perm: ordered by polar angle in the plane if the
\* algorithm orders it (the points of the plane whenever it orders the plane)
SeparationGroup(sepplane, local_plane, separation_indices, pp_s, group) ==
  IF /\ sepplane.ordered_plane
     /\ (group = 2 \/ sepplane.ordered_point_groups[(group + 1) \div 2])
  THEN [k \in 1..Len(separation_indices[group]) |->
          separation_indices[group][
            project_and_to2dim_ordered_indices(local_plane, pp_s[group])[k] + 1]]
  ELSE separation_indices[group]

\* itertools.chain(*groups[first .. last])
RECURSIVE Chain(_, _, _)
Chain(groups, first, last) ==
  IF first > last THEN <<>> ELSE groups[first] \o Chain(groups, first + 1, last)

\* separation_perm of a separation: side 1, the points of the plane and
\* side 2; pp_s holds the points of the three groups
SeparationPerm(sepplane, local_plane, separation_indices, pp_s) ==
  Chain([group \in 1..3 |->
           SeparationGroup(sepplane, local_plane, separation_indices, pp_s, group)],
        1, 3)

\* perm1 = [separation_perm[ii] for ii in sep_perm];
\* pp = [perm1[ii] for ii in argref_separation], for each sep_perm
SeparationPermutations(sepplane, separation_perm) ==
  [s \in 1..Len(sepplane.permutations) |->
     [k \in 1..Len(sepplane.argsorted_ref_separation_perm) |->
        separation_perm[
          sepplane.permutations[s][sepplane.argsorted_ref_separation_perm[k] + 1] + 1]]]

\* the measures of the permutations of one separation
SeparationMeasures(self, permutations, points_perfect) ==
  [s \in 1..Len(permutations) |->
     PermutationMeasure(self, permutations[s], points_perfect)]

\* the three point groups of a separation, read with enumerate(_coords)
EnumeratedGroups(g, separation_indices) ==
  [group \in 1..3 |-> EnumeratePoints(g, separation_indices[group])]

\* the three point groups of a separation, read with coords.take
TakenGroups(g, separation_indices) ==
  [group \in 1..3 |-> TakePoints(g, separation_indices[group])]

\* _cg_csm_separation_plane, one tolerance: the permutations pps of
\* this_separation are measured and this_separation is recorded
CgCsmAppend(self, points_perfect, acc, this_separation, pps) ==
  [permutations_symmetry_measures |->
     acc.permutations_symmetry_measures \o SeparationMeasures(self, pps, points_perfect),
   permutations |-> acc.permutations \o pps,
   plane_separations |-> Append(acc.plane_separations, this_separation),
   dist_tolerances |-> acc.dist_tolerances]

\* _cg_csm_separation_plane, one tolerance: this_separation is the separation
\* with the side of point_groups[0] first
CgCsmOriented(self, sep_plane, local_plane, points_perfect, acc, this_separation) ==
  CgCsmAppend(self, points_perfect, acc, this_separation,
    SeparationPermutations(sep_plane,
      SeparationPerm(sep_plane, local_plane, this_separation,
                     EnumeratedGroups(self.local_geometry, this_separation))))

\* _cg_csm_separation_plane, one tolerance, were the sizes of the separation
\* not compared with those of the algorithm
CgCsmToleranceAnySize(self, sep_plane, local_plane, points_perfect, acc, separation) ==
  IF separation_in_list(separation, acc.plane_separations) THEN acc
  ELSE CgCsmOriented(self, sep_plane, local_plane, points_perfect, acc, separation)

\* _cg_csm_separation_plane, one tolerance: the separation is passed over if
\* it is known already or does not fit the algorithm
CgCsmTolerance(self, sep_plane, local_plane, points_perfect, acc, separation) ==
  IF \/ separation_in_list(separation, acc.plane_separations)
     \/ Len(separation[2]) # Len(sep_plane.plane_points)
     \/ /\ Len(separation[1]) # Len(sep_plane.point_groups[1])
        /\ Len(separation[1]) # Len(sep_plane.point_groups[2])
  THEN acc
  ELSE CgCsmOriented(self, sep_plane, local_plane, points_perfect, acc,
         IF Len(separation[1]) = Len(sep_plane.point_groups[1]) THEN separation
         ELSE <<separation[3], separation[2], separation[1]>>)

RECURSIVE CgCsmTolerancesUntilFound(_, _, _, _, _, _)
\* the loop of _cg_csm_separation_plane over dist_tolerances, were it left at
\* the first tolerance with a separation that fits the algorithm
CgCsmTolerancesUntilFound(self, sep_plane, local_plane, points_perfect, t, acc) ==
  IF t > Len(DIST_TOLERANCES) \/ Len(acc.permutations) > 0 THEN acc
  ELSE CgCsmTolerancesUntilFound(self, sep_plane, local_plane, points_perfect, t + 1,
         CgCsmTolerance(self, sep_plane, local_plane, points_perfect,
           [acc EXCEPT !.dist_tolerances = Append(@, DIST_TOLERANCES[t])],
           sort_separation(indices_separate(local_plane, self.local_geometry.coords.num,
                                            DIST_TOLERANCES[t]))))

RECURSIVE CgCsmTolerancesLoop(_, _, _, _, _, _)
\* the loop of _cg_csm_separation_plane over dist_tolerances from tolerance t
\* on; plane_found is never set, so that no tolerance ends the loop; the
\* tolerances with which indices_separate was called are kept in
\* dist_tolerances
CgCsmTolerancesLoop(self, sep_plane, local_plane, points_perfect, t, acc) ==
  IF t > Len(DIST_TOLERANCES) THEN acc
  ELSE CgCsmTolerancesLoop(self, sep_plane, local_plane, points_perfect, t + 1,
         CgCsmTolerance(self, sep_plane, local_plane, points_perfect,
           [acc EXCEPT !.dist_tolerances = Append(@, DIST_TOLERANCES[t])],
           sort_separation(indices_separate(local_plane, self.local_geometry.coords.num,
                                            DIST_TOLERANCES[t]))))

\* _cg_csm_separation_plane: the measures and permutations of the plane (both
\* empty for the return of None) and plane_separations as the call leaves it
_cg_csm_separation_plane(self, sep_plane, local_plane, plane_separations, points_perfect) ==
  CgCsmTolerancesLoop(self, sep_plane, local_plane, points_perfect, 1,
                      [permutations_symmetry_measures |-> <<>>,
                       permutations |-> <<>>,
                       plane_separations |-> plane_separations,
                       dist_tolerances |-> <<>>])

\* [sep_plane.algorithm_type] * len(permutations)
AlgorithmTypes(algo, permutations) ==
  [i \in 1..Len(permutations) |-> algo.algorithm_type]

\* the plain search, one plane: the measures of the plane are added if there
\* are any
SepPlaneExtend(separation_plane_algo, acc, cgsm) ==
  [acc EXCEPT
     !.result =
       IF Len(cgsm.permutations_symmetry_measures) > 0
       THEN ExtendSearchResult(acc.result,
              SearchResult(cgsm.permutations_symmetry_measures, cgsm.permutations,
                           AlgorithmTypes(separation_plane_algo, cgsm.permutations)))
       ELSE acc.result,
     !.plane_separations = cgsm.plane_separations,
     !.nplanes = IF Len(cgsm.permutations_symmetry_measures) > 0 THEN acc.nplanes + 1
                 ELSE acc.nplanes]

\* the plain search, one combination of neighbors with its plane; the
\* combinations met and those that the collinearity test passed over are
\* counted
SepPlaneCombination(self, separation_plane_algo, points_perfect, acc, plane) ==
  IF plane.skipped
  THEN [acc EXCEPT !.ncombinations = @ + 1, !.nskipped = @ + 1]
  ELSE SepPlaneExtend(separation_plane_algo, [acc EXCEPT !.ncombinations = @ + 1],
         _cg_csm_separation_plane(self, separation_plane_algo, plane,
                                  acc.plane_separations, points_perfect))

RECURSIVE SepPlaneCombinationsLoop(_, _, _, _, _, _, _)
\* the loop of the plain search over the combinations of npoints neighbors,
\* from combination k on
SepPlaneCombinationsLoop(self, separation_plane_algo, points_perfect, points, combinations, k, acc) ==
  IF k > Len(combinations) \/ acc.nplanes < 0 THEN acc
  ELSE SepPlaneCombinationsLoop(self, separation_plane_algo, points_perfect, points,
         combinations, k + 1,
         SepPlaneCombination(self, separation_plane_algo, points_perfect, acc,
                             LocalPlane(points, combinations[k])))

\* the plain search, npoints done: what the loop over the combinations of
\* npoints neighbors met is kept in npoints_done
SepPlaneNpointsDone(npoints, acc, out) ==
  [out EXCEPT !.npoints_done =
     Append(@, [npoints |-> npoints,
                ncombinations |-> out.ncombinations - acc.ncombinations,
                nskipped |-> out.nskipped - acc.nskipped,
                nplanes |-> out.nplanes])]

RECURSIVE SepPlaneNpointsAll(_, _, _, _, _, _)
\* the loop of the plain search over npoints, were it not left once a plane
\* was found
SepPlaneNpointsAll(self, separation_plane_algo, points_perfect, points, npoints, acc) ==
  IF \/ npoints > Min2(separation_plane_algo.maximum_number_of_points, 4)
     \/ acc.nplanes < 0
  THEN acc
  ELSE SepPlaneNpointsAll(self, separation_plane_algo, points_perfect, points,
         npoints + 1,
         SepPlaneNpointsDone(npoints, acc,
           SepPlaneCombinationsLoop(
             self, separation_plane_algo, points_perfect, points,
             Combinations(0, Size(self.local_geometry.coords), npoints), 1, acc)))

RECURSIVE SepPlaneNpointsLoop(_, _, _, _, _, _)
\* the loop of the plain search over npoints: it ends after the first npoints
\* with which a plane was found
SepPlaneNpointsLoop(self, separation_plane_algo, points_perfect, points, npoints, acc) ==
  IF \/ npoints > Min2(separation_plane_algo.maximum_number_of_points, 4)
     \/ acc.nplanes > 0
  THEN acc
  ELSE SepPlaneNpointsLoop(self, separation_plane_algo, points_perfect, points,
         npoints + 1,
         SepPlaneNpointsDone(npoints, acc,
           SepPlaneCombinationsLoop(
             self, separation_plane_algo, points_perfect, points,
             Combinations(0, Size(self.local_geometry.coords), npoints), 1, acc)))

\* the plain search before its first combination
SepPlaneStart ==
  [result |-> EmptySearchResult, plane_separations |-> <<>>, nplanes |-> 0,
   ncombinations |-> 0, nskipped |-> 0, npoints_done |-> <<>>]

\* the end of the plain search, were the random fallback added to the
\* permutations of the planes
SepPlaneAndFallback(self, coordination_geometry, points_perfect, rng, out) ==
  ExtendSearchResult(out.result,
    coordination_geometry_symmetry_measures_fallback_random(
      self, coordination_geometry, n_random_default, points_perfect, rng))

\* if nplanes == 0: return self.coordination_geometry_symmetry_measures_fallback_random(...)
SepPlaneOrFallback(self, coordination_geometry, points_perfect, rng, out) ==
  IF out.nplanes = 0
  THEN coordination_geometry_symmetry_measures_fallback_random(
         self, coordination_geometry, n_random_default, points_perfect, rng)
  ELSE out.result

coordination_geometry_symmetry_measures_separation_plane(self, coordination_geometry, separation_plane_algo, points_perfect, rng) ==
  SepPlaneOrFallback(self, coordination_geometry, points_perfect, rng,
    SepPlaneNpointsLoop(self, separation_plane_algo, points_perfect,
                        PlanePoints(self.local_geometry),
                        separation_plane_algo.minimum_number_of_points,
                        SepPlaneStart))

\* the five lists of the permutations pps of one separation
CgCsmOptimResult(self, sepplane, points_perfect, pps) ==
  SearchResult(SeparationMeasures(self, pps, points_perfect), pps,
               AlgorithmTypes(sepplane, pps))

\* the measures of one separation in the optimized search
CgCsmOptim(self, sepplane, local_plane, points_perfect, separation_indices, pp_s) ==
  CgCsmOptimResult(self, sepplane, points_perfect,
    SeparationPermutations(
      sepplane, SeparationPerm(sepplane, local_plane, separation_indices, pp_s)))

_cg_csm_separation_plane_optim1(self, sepplane, local_plane, points_perfect, separation_indices) ==
  CgCsmOptim(self, sepplane, local_plane, points_perfect, separation_indices,
             EnumeratedGroups(self.local_geometry, separation_indices))

_cg_csm_separation_plane_optim2(self, sepplane, local_plane, points_perfect, separation_indices) ==
  CgCsmOptim(self, sepplane, local_plane, points_perfect, separation_indices,
             TakenGroups(self.local_geometry, separation_indices))

\* cgcsmoptim(...)
cgcsmoptim(self, optimization, sepplane, local_plane, points_perfect, separation_indices) ==
  IF optimization = 2
  THEN _cg_csm_separation_plane_optim2(self, sepplane, local_plane, points_perfect,
                                       separation_indices)
  ELSE _cg_csm_separation_plane_optim1(self, sepplane, local_plane, points_perfect,
                                       separation_indices)

\* nb_set.local_planes = {}; nb_set.separations = {}: both kept in the order of
\* insertion, as a dict is
EmptyNbSet == [local_planes |-> <<>>, separations |-> <<>>]

\* nb_set.separations[sep][separation] = (plane, _sep)
StoreSeparation(separations, sep, separation, plane) ==
  LET entry == [sep |-> sep, separation |-> separation, plane |-> plane]
      Same(k) == separations[k].sep = sep /\ separations[k].separation = separation
  IN  IF \E k \in 1..Len(separations) : Same(k)
      THEN [k \in 1..Len(separations) |-> IF Same(k) THEN entry ELSE separations[k]]
      ELSE Append(separations, entry)

RECURSIVE OptimGroupsLoop(_, _, _, _, _, _)
\* the loop of the optimized search over the groups of distances of one plane:
\* the separations of the catalog are stored in nb_set.separations, and those
\* of the algorithm are collected in new_seps
OptimGroupsLoop(self, separation_plane_algo, plane, grouped_indices, ng, acc) ==
  IF ng > Len(grouped_indices) THEN acc
  ELSE
    LET cn == Size(self.local_geometry.coords)
        inplane == Chain(grouped_indices, 1, ng)
        outplane == Chain(grouped_indices, ng + 1, Len(grouped_indices))
        Below(k) == outplane[k + 1][2] < 0
        Above(k) == outplane[k + 1][2] > 0
        s1 == LET kept == IndicesFrom(Below, 0, Len(outplane))
              IN  [k \in 1..Len(kept) |-> outplane[kept[k] + 1][1]]
        s2 == LET kept == IndicesFrom(Above, 0, Len(outplane))
              IN  [k \in 1..Len(kept) |-> outplane[kept[k] + 1][1]]
        separation == sort_separation_tuple(
                        <<s1, [k \in 1..Len(inplane) |-> inplane[k][1]], s2>>)
        sep == <<Len(separation[1]), Len(separation[2]), Len(separation[3])>>
    IN  IF Len(inplane) > self.allcg.maxpoints_inplane[cn] THEN acc
        ELSE IF sep \notin self.allcg.separations_cg[cn]
        THEN OptimGroupsLoop(self, separation_plane_algo, plane, grouped_indices,
                             ng + 1, acc)
        ELSE OptimGroupsLoop(self, separation_plane_algo, plane, grouped_indices, ng + 1,
               [separations |-> StoreSeparation(acc.separations, sep, separation, plane),
                new_seps |-> IF sep = separation_plane_algo.separation
                             THEN Append(acc.new_seps, separation)
                             ELSE acc.new_seps])

RECURSIVE OptimSeparationsLoop(_, _, _, _, _, _, _)
\* the measures of the separations of seps from separation k on; each
\* separation is a record with its plane
OptimSeparationsLoop(self, optimization, separation_plane_algo, points_perfect, seps, k, result) ==
  IF k > Len(seps) THEN result
  ELSE OptimSeparationsLoop(self, optimization, separation_plane_algo, points_perfect,
         seps, k + 1,
         ExtendSearchResult(result,
           cgcsmoptim(self, optimization, separation_plane_algo, seps[k].plane,
                      points_perfect, seps[k].separation)))

\* the optimized search, one plane: its separations are stored and those of
\* the algorithm are measured
OptimStore(self, optimization, separation_plane_algo, points_perfect, acc, local_planes, plane, groups) ==
  [result |->
     OptimSeparationsLoop(self, optimization, separation_plane_algo, points_perfect,
       [m \in 1..Len(groups.new_seps) |->
          [separation |-> groups.new_seps[m], plane |-> plane]],
       1, acc.result),
   nb_set |-> [local_planes |-> local_planes, separations |-> groups.separations]]

\* the optimized search, one combination that nb_set.local_planes does not
\* hold yet, with its plane
OptimPlane(self, optimization, separation_plane_algo, points_perfect, acc, ipoints_combination, plane) ==
  IF plane.skipped
  THEN [result |-> acc.result,
        nb_set |-> [local_planes |->
                      Append(acc.nb_set.local_planes,
                             [combination |-> ipoints_combination, plane |-> plane]),
                    separations |-> acc.nb_set.separations]]
  ELSE OptimStore(self, optimization, separation_plane_algo, points_perfect, acc,
         Append(acc.nb_set.local_planes,
                [combination |-> ipoints_combination, plane |-> plane]),
         plane,
         OptimGroupsLoop(self, separation_plane_algo, plane,
           distances_indices_groups(plane, self.local_geometry.coords.num, Rat(1, 10)),
           1, [separations |-> acc.nb_set.separations, new_seps |-> <<>>]))

RECURSIVE OptimCombinationsLoopRefitting(_, _, _, _, _, _, _, _)
\* the loop of the optimized search over the combinations of neighbors, were
\* nb_set.local_planes not looked up
OptimCombinationsLoopRefitting(self, optimization, separation_plane_algo, points_perfect, points, combinations, k, acc) ==
  IF k > Len(combinations) \/ Len(acc.nb_set.local_planes) < 0 THEN acc
  ELSE OptimCombinationsLoopRefitting(self, optimization, separation_plane_algo,
         points_perfect, points, combinations, k + 1,
         OptimPlane(self, optimization, separation_plane_algo, points_perfect, acc,
                    combinations[k], LocalPlane(points, combinations[k])))

RECURSIVE OptimCombinationsLoop(_, _, _, _, _, _, _, _)
\* the loop of the optimized search over the combinations of neighbors: a
\* combination that nb_set.local_planes holds already is passed over
OptimCombinationsLoop(self, optimization, separation_plane_algo, points_perfect, points, combinations, k, acc) ==
  IF k > Len(combinations) THEN acc
  ELSE IF \E m \in 1..Len(acc.nb_set.local_planes) :
            acc.nb_set.local_planes[m].combination = combinations[k]
  THEN OptimCombinationsLoop(self, optimization, separation_plane_algo, points_perfect,
                             points, combinations, k + 1, acc)
  ELSE OptimCombinationsLoop(self, optimization, separation_plane_algo, points_perfect,
         points, combinations, k + 1,
         OptimPlane(self, optimization, separation_plane_algo, points_perfect, acc,
                    combinations[k], LocalPlane(points, combinations[k])))

\* the combinations of npoints neighbors for npoints from npoints to last
RECURSIVE CombinationsUpTo(_, _, _)
CombinationsUpTo(cn, npoints, last) ==
  IF npoints > last THEN <<>>
  ELSE Combinations(0, cn, npoints) \o CombinationsUpTo(cn, npoints + 1, last)

ValueErrorOptimization == "Optimization should be 1 or 2"

\* the separations that nb_set holds already for the separation of the algorithm
CachedSeparations(nb_set, separation_plane_algo) ==
  SelectSeq(nb_set.separations,
            LAMBDA entry : entry.sep = separation_plane_algo.separation)

\* if len(permutations_symmetry_measures) == 0: return the fallback
OptimOrFallback(self, coordination_geometry, points_perfect, rng, out) ==
  [raised |-> "", msg |-> "",
   result |->
     IF Len(out.result.permutations_symmetry_measures) = 0
     THEN coordination_geometry_symmetry_measures_fallback_random(
            self, coordination_geometry, n_random_default, points_perfect, rng)
     ELSE out.result,
   nb_set |-> out.nb_set]

\* coordination_geometry_symmetry_measures_separation_plane_optim: the five
\* lists returned and nb_set as the call leaves it, or the exception raised
coordination_geometry_symmetry_measures_separation_plane_optim(self, coordination_geometry, separation_plane_algo, points_perfect, nb_set, optimization, rng) ==
  IF optimization \notin {1, 2}
  THEN [raised |-> "ValueError", msg |-> ValueErrorOptimization,
        result |-> EmptySearchResult, nb_set |-> nb_set]
  ELSE OptimOrFallback(self, coordination_geometry, points_perfect, rng,
         OptimCombinationsLoop(
           self, optimization, separation_plane_algo, points_perfect,
           PlanePoints(self.local_geometry),
           CombinationsUpTo(Size(self.local_geometry.coords),
                            self.allcg.minpoints[Size(self.local_geometry.coords)],
                            Min2(self.allcg.maxpoints[Size(self.local_geometry.coords)], 3)),
           1,
           [result |->
              OptimSeparationsLoop(self, optimization, separation_plane_algo,
                points_perfect, CachedSeparations(nb_set, separation_plane_algo), 1,
                EmptySearchResult),
            nb_set |-> nb_set]))

\* the loop of coordination_geometry_symmetry_measures_sepplane_optim, one
\* separation plane algorithm with what its search returned
SepplaneOptimExtend(acc, cgsm) ==
  IF cgsm.raised # ""
  THEN [raised |-> cgsm.raised, msg |-> cgsm.msg, result |-> acc.result,
        nb_set |-> cgsm.nb_set]
  ELSE [raised |-> "", msg |-> "",
        result |-> ExtendSearchResult(acc.result, cgsm.result),
        nb_set |-> cgsm.nb_set]

\* the loop of coordination_geometry_symmetry_measures_sepplane_optim, one
\* algorithm
SepplaneOptimAlgorithm(self, coordination_geometry, points_perfect, optimization, rng, acc, algo) ==
  IF algo.algorithm_type # SEPARATION_PLANE THEN acc
  ELSE SepplaneOptimExtend(acc,
         coordination_geometry_symmetry_measures_separation_plane_optim(
           self, coordination_geometry, algo, points_perfect, acc.nb_set,
           optimization, rng))

RECURSIVE SepplaneOptimAlgorithmsLoop(_, _, _, _, _, _, _)
\* the loop of coordination_geometry_symmetry_measures_sepplane_optim over the
\* algorithms from algorithm k on; an exception ends it
SepplaneOptimAlgorithmsLoop(self, coordination_geometry, points_perfect, optimization, rng, k, acc) ==
  IF k > Len(coordination_geometry.algorithms) \/ acc.raised # "" THEN acc
  ELSE SepplaneOptimAlgorithmsLoop(self, coordination_geometry, points_perfect,
         optimization, rng, k + 1,
         SepplaneOptimAlgorithm(self, coordination_geometry, points_perfect,
                                optimization, rng, acc, coordination_geometry.algorithms[k]))

coordination_geometry_symmetry_measures_sepplane_optim(self, coordination_geometry, points_perfect, nb_set, optimization, rng) ==
  SepplaneOptimAlgorithmsLoop(self, coordination_geometry, points_perfect, optimization,
                              rng, 1,
                              [raised |-> "", msg |-> "", result |-> EmptySearchResult,
                               nb_set |-> nb_set])
RECURSIVE CgsmAlgorithmsLoop(_, _, _, _, _, _, _)
\* the loop of coordination_geometry_symmetry_measures over the algorithms from
\* algorithm k on: an algorithm with explicit permutations returns its own
\* lists, the lists of the separation planes are chained
CgsmAlgorithmsLoop(self, coordination_geometry, points_perfect, optimization, rng, k, acc) ==
  IF k > Len(coordination_geometry.algorithms) THEN acc
  ELSE LET algo == coordination_geometry.algorithms[k]
       IN  IF algo.algorithm_type = EXPLICIT_PERMUTATIONS
           THEN coordination_geometry_symmetry_measures_standard(
                  self, coordination_geometry, algo, points_perfect, optimization)
           ELSE IF algo.algorithm_type = SEPARATION_PLANE
           THEN CgsmAlgorithmsLoop(
                  self, coordination_geometry, points_perfect, optimization, rng, k + 1,
                  ExtendSearchResult(acc,
                    coordination_geometry_symmetry_measures_separation_plane(
                      self, coordination_geometry, algo, points_perfect, rng)))
           ELSE CgsmAlgorithmsLoop(self, coordination_geometry, points_perfect,
                                   optimization, rng, k + 1, acc)

coordination_geometry_symmetry_measures(self, coordination_geometry, points_perfect, optimization, rng) ==
  CgsmAlgorithmsLoop(self, coordination_geometry, points_perfect, optimization, rng,
                     1, EmptySearchResult)

\* fault: the last index instead of the index of the minimum
ArgLast(values) == Len(values)

\* np.argmin of a list of floats, as a 1-based index: the first nan if there
\* is one, else the first smallest value
ArgMin(values) ==
  LET idx == 1..Len(values)
      nans == {i \in idx : values[i] = NaN}
      best == IF nans # {} THEN nans
              ELSE {i \in idx : \A j \in idx : RLeq(values[i], values[j])}
  IN  CHOOSE i \in best : \A j \in best : i <= j

\* 1.0 / scaling_factor, on the squares
InverseScalingFactor(scaling_factor_sq) == FDiv(ROne, scaling_factor_sq)

CsmTypes == <<"wocs_ctwocc", "wocs_ctwcc", "wocs_csc", "wcs_ctwocc", "wcs_ctwcc", "wcs_csc">>

\* the method named points_<view> of geometry g
PointsOfView(view, g, permutation) ==
  CASE view = "wocs_ctwocc" -> points_wocs_ctwocc(g, permutation)
    [] view = "wocs_ctwcc" -> points_wocs_ctwcc(g, permutation)
    [] view = "wocs_csc" -> points_wocs_csc(g, permutation)
    [] view = "wcs_ctwocc" -> points_wcs_ctwocc(g, permutation)
    [] view = "wcs_ctwcc" -> points_wcs_ctwcc(g, permutation)
    [] view = "wcs_csc" -> points_wcs_csc(g, permutation)

\* the six blocks of _update_results_all_csms: the key suffix, the method that
\* gives pdist, the method that gives pperf and the attribute stored as the
\* translation vector
AllCsmsBlocks ==
  <<[csmtype |-> "wocs_ctwocc", pdist |-> "wocs_ctwocc", pperf |-> "wocs_ctwocc",
     translation_vector |-> "centroid_without_centre"],
    [csmtype |-> "wocs_ctwcc", pdist |-> "wocs_ctwcc", pperf |-> "wocs_ctwcc",
     translation_vector |-> "centroid_with_centre"],
    [csmtype |-> "wocs_csc", pdist |-> "wocs_csc", pperf |-> "wocs_csc",
     translation_vector |-> "bare_centre"],
    [csmtype |-> "wcs_ctwocc", pdist |-> "wcs_ctwocc", pperf |-> "wcs_ctwocc",
     translation_vector |-> "centroid_without_centre"],
    [csmtype |-> "wcs_ctwcc", pdist |-> "wcs_ctwcc", pperf |-> "wcs_ctwcc",
     translation_vector |-> "centroid_with_centre"],
    [csmtype |-> "wcs_csc", pdist |-> "wcs_csc", pperf |-> "wcs_csc",
     translation_vector |-> "bare_centre"]>>

\* one block of _update_results_all_csms with the sm_info it computed
AllCsmsEntry(self, block, sm_info) ==
  [csmtype |-> block.csmtype,
   csm |-> sm_info.symmetry_measure,
   rotation_matrix |-> sm_info.rotation_matrix,
   scaling_factor_sq |-> InverseScalingFactor(sm_info.scaling_factor_sq),
   translation_vector |-> self.local_geometry[block.translation_vector],
   views |-> sm_info.views]

\* the six measures that _update_results_all_csms adds for the permutation;
\* perfect_geometry is self.perfect_geometry, set by the caller
update_results_all_csms(self, perfect_geometry, permutation) ==
  [t \in 1..Len(AllCsmsBlocks) |->
     AllCsmsEntry(self, AllCsmsBlocks[t],
       symmetry_measure(
         PointsOfView(AllCsmsBlocks[t].pdist, self.local_geometry, permutation),
         PointsOfView(AllCsmsBlocks[t].pperf, perfect_geometry, NoPerm)))]

\* result_dict["S:1"] of a local geometry with one neighbor
SingleNeighborEntry(all_csms) ==
  [mp_symbol |-> "S:1", csm |-> RZero, indices |-> <<0>>, algo |-> "EXPLICIT",
   local2perfect_map |-> [ii \in {0} |-> 0],
   perfect2local_map |-> [ii \in {0} |-> 0],
   scaling_factor_sq |-> None, rotation_matrix |-> None,
   translation_vector |-> None,
   all_csms |->
     IF all_csms
     THEN [t \in 1..Len(CsmTypes) |->
             [csmtype |-> CsmTypes[t], csm |-> RZero, rotation_matrix |-> None,
              scaling_factor_sq |-> None, translation_vector |-> None]]
     ELSE <<>>]

\* result_dict[geometry.mp_symbol] for the permutation imin (1-based)
MinimumEntryAt(self, geometry, perfect_geometry, cgsm, all_csms, imin) ==
  [mp_symbol |-> geometry.mp_symbol,
   csm |-> cgsm.permutations_symmetry_measures[imin].symmetry_measure,
   indices |-> cgsm.permutations[imin],
   algo |-> cgsm.algos[imin],
   local2perfect_map |-> cgsm.local2perfect_maps[imin],
   perfect2local_map |-> cgsm.perfect2local_maps[imin],
   scaling_factor_sq |->
     InverseScalingFactor(cgsm.permutations_symmetry_measures[imin].scaling_factor_sq),
   rotation_matrix |-> cgsm.permutations_symmetry_measures[imin].rotation_matrix,
   translation_vector |-> cgsm.permutations_symmetry_measures[imin].translation_vector,
   all_csms |->
     IF all_csms
     THEN update_results_all_csms(self, perfect_geometry, cgsm.permutations[imin])
     ELSE <<>>]

\* result_dict[geometry.mp_symbol] when only the minimum is kept:
\* imin = np.argmin([rr["symmetry_measure"] for rr in result])
MinimumEntry(self, geometry, perfect_geometry, cgsm, all_csms) ==
  MinimumEntryAt(self, geometry, perfect_geometry, cgsm, all_csms,
    ArgMin([i \in 1..Len(cgsm.permutations_symmetry_measures) |->
              cgsm.permutations_symmetry_measures[i].symmetry_measure]))

\* result_dict[geometry.mp_symbol] when every permutation is kept
AllPermutationsEntry(geometry, cgsm) ==
  [mp_symbol |-> geometry.mp_symbol,
   csm |-> cgsm.permutations_symmetry_measures,
   indices |-> cgsm.permutations,
   algo |-> cgsm.algos,
   local2perfect_map |-> cgsm.local2perfect_maps,
   perfect2local_map |-> cgsm.perfect2local_maps]

\* the views of the calls of symmetry_measure behind a list of measures
ViewsOf(measures) == [i \in 1..Len(measures) |-> measures[i].views]

\* what a call of the finder leaves: the exception raised or the value
\* returned, the perfect geometry it has set and its symmetry_measure calls
Outcome(raised, msg, result_dict, perfect_geometry, calls) ==
  [raised |-> raised, msg |-> msg, result_dict |-> result_dict,
   perfect_geometry |-> perfect_geometry, calls |-> calls]

\* the loop over the test geometries, one geometry: entry (a list of no or one
\* entry) is stored in result_dict; with_all_csms tells whether the entry
\* holds the measures of _update_results_all_csms
GeometryStored(perfect_geometry, acc, result, entry, with_all_csms) ==
  Outcome("", "", acc.result_dict \o entry, perfect_geometry,
          acc.calls \o ViewsOf(result)
          \o (IF with_all_csms THEN ViewsOf(entry[1].all_csms) ELSE <<>>))

\* the loop of get_coordination_symmetry_measures, one geometry with what
\* coordination_geometry_symmetry_measures returned
GcsmMeasured(self, geometry, perfect_geometry, only_minimum, all_csms, acc, cgsm) ==
  GeometryStored(perfect_geometry, acc, cgsm.permutations_symmetry_measures,
    IF only_minimum
    THEN IF Len(cgsm.permutations_symmetry_measures) > 0
         THEN <<MinimumEntry(self, geometry, perfect_geometry, cgsm, all_csms)>>
         ELSE <<>>
    ELSE <<AllPermutationsEntry(geometry, cgsm)>>,
    only_minimum /\ Len(cgsm.permutations_symmetry_measures) > 0 /\ all_csms)

\* the loop of get_coordination_symmetry_measures, one geometry with
\* self.perfect_geometry = AbstractGeometry.from_cg(...)
GcsmGeometry(self, geometry, only_minimum, all_csms, optimization, rng, acc, perfect_geometry) ==
  IF perfect_geometry.raised # ""
  THEN Outcome(perfect_geometry.raised, perfect_geometry.msg, acc.result_dict,
               acc.perfect_geometry, acc.calls)
  ELSE GcsmMeasured(self, geometry, perfect_geometry, only_minimum, all_csms, acc,
         coordination_geometry_symmetry_measures(
           self, geometry, points_wcs_ctwcc(perfect_geometry, NoPerm), optimization,
           rng))

RECURSIVE GcsmGeometriesLoop(_, _, _, _, _, _, _)
\* the loop of get_coordination_symmetry_measures over the test geometries; an
\* exception ends it
GcsmGeometriesLoop(self, test_geometries, only_minimum, all_csms, optimization, rng, acc) ==
  IF test_geometries = <<>> \/ acc.raised # "" THEN acc
  ELSE GcsmGeometriesLoop(self, Tail(test_geometries), only_minimum, all_csms,
         optimization, rng,
         GcsmGeometry(self, Head(test_geometries), only_minimum, all_csms,
                      optimization, rng, acc,
                      from_cg(Head(test_geometries), self.centering_type,
                              self.include_central_site_in_centroid)))

\* get_coordination_symmetry_measures with test_geometries =
\* self.allcg.get_implemented_geometries(len(self.local_geometry.coords))
GcsmOver(self, only_minimum, all_csms, optimization, rng, test_geometries) ==
  IF Size(self.local_geometry.coords) = 1
  THEN Outcome("", "",
               IF Len(test_geometries) = 0 THEN <<>>
               ELSE <<SingleNeighborEntry(all_csms)>>,
               self.perfect_geometry, <<>>)
  ELSE GcsmGeometriesLoop(self, test_geometries, only_minimum, all_csms,
                          optimization, rng,
                          Outcome("", "", <<>>, self.perfect_geometry, <<>>))

get_coordination_symmetry_measures(self, only_minimum, all_csms, optimization, rng) ==
  GcsmOver(self, only_minimum, all_csms, optimization, rng,
           get_implemented_geometries(self.allcg, Size(self.local_geometry.coords)))

ValueErrorAlgorithms == "All algorithms should be EXPLICIT_PERMUTATIONS or SEPARATION_PLANE"

\* Outcome with nb_set as the call leaves it
OptimOutcome(out, nb_set) ==
  [raised |-> out.raised, msg |-> out.msg, result_dict |-> out.result_dict,
   perfect_geometry |-> out.perfect_geometry, calls |-> out.calls, nb_set |-> nb_set]

\* the loop of get_coordination_symmetry_measures_optim, one geometry with what
\* coordination_geometry_symmetry_measures_sepplane_optim returned
GcsmOptimMeasured(self, geometry, perfect_geometry, only_minimum, all_csms, acc, cgsm) ==
  IF cgsm.raised # ""
  THEN OptimOutcome(Outcome(cgsm.raised, cgsm.msg, acc.result_dict, perfect_geometry,
                            acc.calls),
                    cgsm.nb_set)
  ELSE OptimOutcome(
         GeometryStored(perfect_geometry, acc, cgsm.result.permutations_symmetry_measures,
           IF only_minimum /\ Len(cgsm.result.permutations_symmetry_measures) > 0
           THEN <<MinimumEntry(self, geometry, perfect_geometry, cgsm.result, all_csms)>>
           ELSE <<>>,
           /\ only_minimum
           /\ Len(cgsm.result.permutations_symmetry_measures) > 0
           /\ all_csms),
         cgsm.nb_set)

\* the loop of get_coordination_symmetry_measures_optim, one geometry with
\* self.perfect_geometry = AbstractGeometry.from_cg(...)
GcsmOptimGeometry(self, geometry, only_minimum, all_csms, optimization, rng, acc, perfect_geometry) ==
  IF perfect_geometry.raised # ""
  THEN OptimOutcome(Outcome(perfect_geometry.raised, perfect_geometry.msg,
                            acc.result_dict, acc.perfect_geometry, acc.calls),
                    acc.nb_set)
  ELSE GcsmOptimMeasured(self, geometry, perfect_geometry, only_minimum, all_csms, acc,
         coordination_geometry_symmetry_measures_sepplane_optim(
           self, geometry, points_wcs_ctwcc(perfect_geometry, NoPerm), acc.nb_set,
           optimization, rng))

RECURSIVE GcsmOptimGeometriesLoop(_, _, _, _, _, _, _)
\* the loop of get_coordination_symmetry_measures_optim over the test
\* geometries; an exception ends it
GcsmOptimGeometriesLoop(self, test_geometries, only_minimum, all_csms, optimization, rng, acc) ==
  IF test_geometries = <<>> \/ acc.raised # "" THEN acc
  ELSE GcsmOptimGeometriesLoop(self, Tail(test_geometries), only_minimum, all_csms,
         optimization, rng,
         GcsmOptimGeometry(self, Head(test_geometries), only_minimum, all_csms,
                           optimization, rng, acc,
                           from_cg(Head(test_geometries), self.centering_type,
                                   self.include_central_site_in_centroid)))

\* get_coordination_symmetry_measures_optim with test_geometries =
\* self.allcg.get_implemented_geometries(cn)
GcsmOptimOver(self, only_minimum, all_csms, nb_set, optimization, rng, test_geometries) ==
  IF \A k \in 1..Len(test_geometries) :
       test_geometries[k].algorithms[1].algorithm_type = EXPLICIT_PERMUTATIONS
  THEN OptimOutcome(GcsmOver(self, only_minimum, all_csms, optimization, rng,
                             test_geometries),
                    nb_set)
  ELSE IF ~(\A k \in 1..Len(test_geometries) :
              \A a \in 1..Len(test_geometries[k].algorithms) :
                test_geometries[k].algorithms[a].algorithm_type = SEPARATION_PLANE)
  THEN OptimOutcome(Outcome("ValueError", ValueErrorAlgorithms, <<>>,
                            self.perfect_geometry, <<>>),
                    nb_set)
  ELSE GcsmOptimGeometriesLoop(
         self, test_geometries, only_minimum, all_csms, optimization, rng,
         OptimOutcome(Outcome("", "", <<>>, self.perfect_geometry, <<>>), nb_set))

get_coordination_symmetry_measures_optim(self, only_minimum, all_csms, nb_set, optimization, rng) ==
  GcsmOptimOver(self, only_minimum, all_csms, nb_set, optimization, rng,
                get_implemented_geometries(self.allcg, Size(self.local_geometry.coords)))
(***************************************************************************)
(* LocalGeometryFinder: setting up a local geometry.                       *)
(***************************************************************************)
NoGeometry == [raised |-> "None"]
NoStructure == IntArray(<<>>)

\* np.dot(rand_rot, coord)
MatVec(M, v) == <<VDot(M[1], v), VDot(M[2], v)>>

\* setup_test_perfect_environment up to setup_structure: the Cartesian
\* coordinates of the test structure, site 0 being the central site
TestEnvironmentCoords(cg, env) ==
  LET points_ == IF env.points = NoPoints THEN cg.points ELSE env.points
      neighb_coords == [i \in 1..Len(env.indices) |-> points_[env.indices[i] + 1]]
      Transform(cc) == VAdd(MatVec(env.random_rotation, VScale(env.random_scale, cc)),
                            env.random_translation)
  IN  Array(<<Transform(VZero)>>
            \o [i \in 1..Len(neighb_coords) |-> Transform(neighb_coords[i])])

(***************************************************************************)
(* The state of a session with one LocalGeometryFinder.                    *)
(***************************************************************************)
VARIABLES
  pc,                \* how far the session is: new, params, catalog,
                     \* structure, local, done
  allcg,             \* self.allcg
  centering_type,    \* self.centering_type
  include_central_site_in_centroid,
  structure,         \* self.structure.cart_coords
  local_geometry,    \* self.local_geometry
  perfect_geometry,  \* self.perfect_geometry
  call,              \* the last call and its arguments
  ret                \* what the last call raised or returned

vars == <<pc, allcg, centering_type, include_central_site_in_centroid, structure,
          local_geometry, perfect_geometry, call, ret>>

Self ==
  [allcg |-> allcg, centering_type |-> centering_type,
   include_central_site_in_centroid |-> include_central_site_in_centroid,
   structure |-> structure, local_geometry |-> local_geometry,
   perfect_geometry |-> perfect_geometry]

(***************************************************************************)
(* The arguments the calls are made with.                                  *)
(***************************************************************************)
MaxNeighbors == 6
MaxCoincident == 3
MaxShuffled == 4
MaxParamsNeighbors == 5

CenteringTypes == {"standard", "central_site", "centroid"}

Symbols == {AllCgTxt[i] : i \in 1..Len(AllCgTxt)}

IndexPermutations(n) ==
  {p \in [1..n -> 0..(n - 1)] : \A i, j \in 1..n : p[i] = p[j] => i = j}

Identity(n) == [i \in 1..n |-> i - 1]
Reversed(n) == [i \in 1..n |-> n - i]

\* the sites that structures are made of
Sites == <<<<2, 0>>, <<-2, 0>>, <<0, 2>>, <<0, -1>>, <<3, 3>>, <<1, -3>>, <<-2, 2>>>>
CentralSites == {<<0, 0>>, <<1, 1>>}

\* structures of a central site and 1..MaxNeighbors neighbors: the first
\* sites, also in reversed order when they are at most MaxShuffled, and up to
\* MaxCoincident neighbors that all sit on the central site
Structures ==
  {IntArray(<<c>> \o [i \in 1..n |-> Sites[i]])
     : c \in CentralSites, n \in 1..Min2(MaxNeighbors, Len(Sites))}
  \cup {IntArray(<<c>> \o [i \in 1..n |-> Sites[n + 1 - i]])
          : c \in CentralSites, n \in 1..Min2(MaxShuffled, Len(Sites))}
  \cup {IntArray(<<c>> \o [i \in 1..n |-> c]) : c \in CentralSites, n \in 1..MaxCoincident}

Rotations ==
  {<<<<ROne, RZero>>, <<RZero, ROne>>>>,
   <<<<Rat(3, 5), Rat(-4, 5)>>, <<Rat(4, 5), Rat(3, 5)>>>>}
Scales == {ROne, RInt(2)}
Translations == {VZero, Pt(1, -2)}

\* cg.points with the last point moved away from the centre
StretchedPoints(cg) ==
  [i \in 1..Len(cg.points) |->
     IF i = Len(cg.points) THEN VScale(RInt(2), cg.points[i]) ELSE cg.points[i]]

\* indices_CN of test_perfect_environments
indices_CN(n) ==
  CASE n = 1 -> <<0>>
    [] n = 2 -> <<1, 0>>
    [] n = 3 -> <<1, 0, 2>>
    [] n = 4 -> <<2, 0, 3, 1>>
    [] n = 5 -> <<2, 3, 1, 0, 4>>
    [] n = 6 -> <<0, 2, 3, 1, 5, 4>>

\* the arguments of setup_test_perfect_environment.  Up to MaxShuffled points:
\* every order of the points without transformation, every transformation of
\* the reversed order, and the identity order of the stretched points.  More
\* points: the identity order and the order of indices_CN without
\* transformation, the order of indices_CN scaled, rotated and translated,
\* and the identity order of the stretched points.
TestEnvironments ==
  UNION {
    LET cg == CoordinationGeometryFile(symbol)
        n == cg.coordination
        Plain(env) == /\ env.random_scale = ROne
                      /\ env.random_rotation[1][1] = ROne
                      /\ env.random_translation = VZero
        Moved(env) == /\ env.random_scale # ROne
                      /\ env.random_rotation[1][1] # ROne
                      /\ env.random_translation # VZero
    IN  {env \in [symbol : {symbol},
                  indices : IF n <= MaxShuffled THEN IndexPermutations(n)
                            ELSE {Identity(n), indices_CN(n)},
                  random_scale : Scales,
                  random_rotation : Rotations,
                  random_translation : Translations,
                  points : {NoPoints, StretchedPoints(cg)}] :
           \/ Plain(env) /\ env.points = NoPoints
           \/ /\ env.points = NoPoints
              /\ IF n <= MaxShuffled THEN env.indices = Reversed(n)
                 ELSE env.indices = indices_CN(n) /\ Moved(env)
           \/ Plain(env) /\ env.indices = Identity(n)}
    : symbol \in Symbols}

\* the arguments of the direct calls of symmetry_measure: one distorted point
\* against any perfect set, or two sets of the same size
MeasuredPoints == {<<0, 0>>, <<1, 0>>, <<0, 2>>, <<-1, 1>>}
MaxMeasuredPoints == 3

PointArrays(n) == {IntArray(rows) : rows \in [1..n -> MeasuredPoints]}

SymmetryMeasureArguments ==
  UNION {PointArrays(1) \X PointArrays(n) : n \in 1..MaxMeasuredPoints}
  \cup UNION {PointArrays(n) \X PointArrays(n) : n \in 2..MaxMeasuredPoints}

\* the values of n_random of the direct calls of the random fallback
NRandoms == {1, 5, n_random_default}

\* optimization=None
NoOptimization == -1

\* the streams of the generator of the random fallback
MaxRngStart == 1
Rngs == [start : 0..MaxRngStart, step : {1}, reverse : {FALSE}]

(***************************************************************************)
(* The calls.                                                              *)
(***************************************************************************)
Init ==
  /\ pc = "new"
  /\ allcg = AllCoordinationGeometries(AllSymbols)
  /\ centering_type = "centroid"
  /\ include_central_site_in_centroid = TRUE
  /\ structure = NoStructure
  /\ local_geometry = NoGeometry
  /\ perfect_geometry = NoGeometry
  /\ call = [op |-> "LocalGeometryFinder"]
  /\ ret = [raised |-> ""]

\* lgf = LocalGeometryFinder()
NewLocalGeometryFinder ==
  /\ pc = "done"
  /\ pc' = "new"
  /\ allcg' = AllCoordinationGeometries(AllSymbols)
  /\ centering_type' = "centroid"
  /\ include_central_site_in_centroid' = TRUE
  /\ structure' = NoStructure
  /\ local_geometry' = NoGeometry
  /\ perfect_geometry' = NoGeometry
  /\ call' = [op |-> "LocalGeometryFinder"]
  /\ ret' = [raised |-> ""]

\* lgf.setup_parameters(centering_type=..., include_central_site_in_centroid=...)
SetupParameters ==
  /\ pc = "new"
  /\ \E ct \in CenteringTypes, inc \in BOOLEAN :
       /\ centering_type' = ct
       /\ include_central_site_in_centroid' = inc
       /\ call' = [op |-> "setup_parameters", centering_type |-> ct,
                   include_central_site_in_centroid |-> inc]
  /\ pc' = "params"
  /\ ret' = [raised |-> ""]
  /\ UNCHANGED <<allcg, structure, local_geometry, perfect_geometry>>

\* lgf.allcg = AllCoordinationGeometries(only_symbols=[mp_symbol])
SetAllcg ==
  /\ pc = "new"
  /\ \E symbol \in Symbols :
       /\ allcg' = AllCoordinationGeometries(<<symbol>>)
       /\ call' = [op |-> "AllCoordinationGeometries", only_symbols |-> <<symbol>>]
  /\ pc' = "catalog"
  /\ ret' = [raised |-> ""]
  /\ UNCHANGED <<centering_type, include_central_site_in_centroid, structure,
                 local_geometry, perfect_geometry>>

\* lgf.setup_structure(structure); after setup_parameters with the structures
\* of up to MaxParamsNeighbors neighbors
SetupStructure ==
  /\ pc \in {"new", "params"}
  /\ \E cart_coords \in Structures :
       /\ pc = "params" => Size(cart_coords) - 1 <= MaxParamsNeighbors
       /\ structure' = cart_coords
       /\ call' = [op |-> "setup_structure"]
  /\ pc' = "structure"
  /\ ret' = [raised |-> ""]
  /\ UNCHANGED <<allcg, centering_type, include_central_site_in_centroid,
                 local_geometry, perfect_geometry>>

\* self.local_geometry = AbstractGeometry(...): g is stored unless building it
\* raised
StoreLocalGeometry(g) ==
  /\ local_geometry' = IF g.raised = "" THEN g ELSE local_geometry
  /\ ret' = IF g.raised = "" THEN [raised |-> ""]
            ELSE [raised |-> g.raised, msg |-> g.msg]
  /\ pc' = IF g.raised = "" THEN "local" ELSE "done"

\* lgf.setup_local_geometry(isite=0, coords=the other sites)
SetupLocalGeometry ==
  /\ pc = "structure"
  /\ StoreLocalGeometry(AbstractGeometry(Row(structure, 1), Rest(structure),
                                         centering_type,
                                         include_central_site_in_centroid))
  /\ call' = [op |-> "setup_local_geometry", isite |-> 0, coords |-> Rest(structure)]
  /\ UNCHANGED <<allcg, centering_type, include_central_site_in_centroid, structure,
                 perfect_geometry>>

\* setup_test_perfect_environment from setup_structure on: coords are the
\* Cartesian coordinates of the structure, g is the local geometry of site 0
TestEnvironmentSetUp(cg, coords, g) ==
  /\ structure' = coords
  /\ StoreLocalGeometry(g)
  /\ perfect_geometry' = IF g.raised = "" THEN from_cg(cg, "standard", FALSE)
                         ELSE perfect_geometry

\* setup_test_perfect_environment from setup_structure on, for the geometry cg
TestEnvironmentAt(cg, coords) ==
  TestEnvironmentSetUp(cg, coords,
    AbstractGeometry(Row(coords, 1), Rest(coords), centering_type,
                     include_central_site_in_centroid))

\* setup_test_perfect_environment with what get_geometry_from_mp_symbol gave
TestEnvironmentOf(env, found) ==
  IF found.raised # ""
  THEN /\ ret' = [raised |-> found.raised]
       /\ pc' = "done"
       /\ UNCHANGED <<structure, local_geometry, perfect_geometry>>
  ELSE TestEnvironmentAt(found.cg, TestEnvironmentCoords(found.cg, env))

\* lgf.setup_test_perfect_environment(symbol, randomness=False, indices=...,
\*   random_translation=..., random_rotation=..., random_scale=..., points=...);
\* after setup_parameters with the environments of up to MaxShuffled points
SetupTestPerfectEnvironment ==
  /\ pc \in {"new", "params", "catalog"}
  /\ \E env \in TestEnvironments :
       /\ pc = "params" => Len(env.indices) <= MaxShuffled
       /\ call' = [op |-> "setup_test_perfect_environment", env |-> env]
       /\ TestEnvironmentOf(env, get_geometry_from_mp_symbol(allcg, env.symbol))
  /\ UNCHANGED <<allcg, centering_type, include_central_site_in_centroid>>

\* what a getter leaves: its outcome returned and self.perfect_geometry
ReturnMeasures(out) ==
  /\ ret' = out
  /\ perfect_geometry' = out.perfect_geometry

\* lgf.get_coordination_symmetry_measures(only_minimum, all_csms, optimization)
GetCoordinationSymmetryMeasures ==
  /\ pc = "local"
  /\ \E only_minimum \in BOOLEAN, all_csms \in BOOLEAN, optimization \in {0, 2},
        rng \in Rngs :
       /\ call' = [op |-> "get_coordination_symmetry_measures",
                   only_minimum |-> only_minimum, all_csms |-> all_csms,
                   optimization |-> optimization]
       /\ ReturnMeasures(get_coordination_symmetry_measures(
                           Self, only_minimum, all_csms, optimization, rng))
  /\ pc' = "done"
  /\ UNCHANGED <<allcg, centering_type, include_central_site_in_centroid, structure,
                 local_geometry>>

\* lgf.get_coordination_symmetry_measures_optim(only_minimum, all_csms,
\*   nb_set, optimization) with a neighbors set whose caches are empty
GetCoordinationSymmetryMeasuresOptim ==
  /\ pc = "local"
  /\ \E only_minimum \in BOOLEAN, all_csms \in BOOLEAN, optimization \in {0, 1, 2},
        rng \in Rngs :
       /\ call' = [op |-> "get_coordination_symmetry_measures_optim",
                   only_minimum |-> only_minimum, all_csms |-> all_csms,
                   optimization |-> optimization]
       /\ ReturnMeasures(get_coordination_symmetry_measures_optim(
                           Self, only_minimum, all_csms, EmptyNbSet, optimization, rng))
  /\ pc' = "done"
  /\ UNCHANGED <<allcg, centering_type, include_central_site_in_centroid, structure,
                 local_geometry>>

\* update_nb_set_environments: the getter that the optimization selects
NbSetEnvironments(self, optimization, rng) ==
  IF optimization > 0
  THEN get_coordination_symmetry_measures_optim(self, TRUE, TRUE, EmptyNbSet,
                                                optimization, rng)
  ELSE OptimOutcome(get_coordination_symmetry_measures(self, TRUE, TRUE,
                                                       NoOptimization, rng),
                    EmptyNbSet)

\* compute_structure_environments once self.allcg is allcg_ and the local
\* geometry g of site 0 was built
StructureEnvironments(optimization, rng, allcg_, g) ==
  /\ allcg' = allcg_
  /\ IF g.raised # ""
     THEN /\ ret' = [raised |-> g.raised, msg |-> g.msg]
          /\ UNCHANGED <<local_geometry, perfect_geometry>>
     ELSE /\ local_geometry' = g
          /\ ReturnMeasures(NbSetEnvironments(
               [allcg |-> allcg_, centering_type |-> centering_type,
                include_central_site_in_centroid |-> include_central_site_in_centroid,
                structure |-> structure, local_geometry |-> g,
                perfect_geometry |-> perfect_geometry],
               optimization, rng))

\* lgf.compute_structure_environments(only_indices=[0], only_symbols=...,
\*   optimization=...) on a structure whose site 0 has the other sites as its
\* one neighbors set: update_nb_set_environments for that set
ComputeStructureEnvironments ==
  /\ pc \in {"structure", "local"}
  /\ \E only_symbols \in {AllSymbols} \cup {<<symbol>> : symbol \in Symbols},
        optimization \in {0, 1, 2}, rng \in Rngs :
       /\ call' = [op |-> "compute_structure_environments",
                   only_symbols |-> only_symbols, optimization |-> optimization]
       /\ StructureEnvironments(optimization, rng,
            IF only_symbols = AllSymbols THEN allcg
            ELSE AllCoordinationGeometries(only_symbols),
            AbstractGeometry(Row(structure, 1), Rest(structure), centering_type,
                             include_central_site_in_centroid))
  /\ pc' = "done"
  /\ UNCHANGED <<centering_type, include_central_site_in_centroid, structure>>

\* lgf.coordination_geometry_symmetry_measures_fallback_random(
\*   coordination_geometry=cg, n_random=..., points_perfect=...) with a geometry
\* of the coordination of the local geometry, as test_abstract_geometry calls it
FallbackRandom ==
  /\ pc = "local"
  /\ \E cg \in {CoordinationGeometryFile(symbol) : symbol \in Symbols},
        n_random \in NRandoms, rng \in Rngs :
       /\ cg.coordination = Size(local_geometry.coords)
       /\ call' = [op |-> "coordination_geometry_symmetry_measures_fallback_random",
                   coordination_geometry |-> cg.mp_symbol, n_random |-> n_random]
       /\ ret' = [raised |-> "",
                  cgsm |-> coordination_geometry_symmetry_measures_fallback_random(
                             Self, cg, n_random,
                             points_wcs_ctwcc(from_cg(cg, "centroid", FALSE), NoPerm),
                             rng)]
  /\ pc' = "done"
  /\ UNCHANGED <<allcg, centering_type, include_central_site_in_centroid, structure,
                 local_geometry, perfect_geometry>>

\* the search with the separation plane algo of cg: the plain search when
\* optimization is None, else the optimized search with empty caches
SeparationPlaneSearchOf(self, cg, algo, points_perfect, optimization, rng) ==
  IF optimization = NoOptimization
  THEN [raised |-> "", msg |-> "",
        result |-> coordination_geometry_symmetry_measures_separation_plane(
                     self, cg, algo, points_perfect, rng),
        nb_set |-> EmptyNbSet]
  ELSE coordination_geometry_symmetry_measures_separation_plane_optim(
         self, cg, algo, points_perfect, EmptyNbSet, optimization, rng)

\* what the search with a separation plane returns
ReturnSearch(out) ==
  ret' = [raised |-> out.raised, msg |-> out.msg, cgsm |-> out.result,
          nb_set |-> out.nb_set]

\* lgf.coordination_geometry_symmetry_measures_separation_plane(cg, algo,
\*   points_perfect) when optimization is None, else
\* lgf.coordination_geometry_symmetry_measures_separation_plane_optim(cg, algo,
\*   points_perfect, nb_set, optimization) with empty caches: the search with
\* one separation plane of a geometry of the coordination of the local geometry
SeparationPlaneSearch ==
  /\ pc = "local"
  /\ \E cg \in {CoordinationGeometryFile(symbol) : symbol \in Symbols},
        optimization \in {NoOptimization, 0, 1, 2}, rng \in Rngs :
       /\ cg.coordination = Size(local_geometry.coords)
       /\ \E k \in 1..Len(cg.algorithms) :
            /\ cg.algorithms[k].algorithm_type = SEPARATION_PLANE
            /\ call' = [op |-> "separation_plane",
                        coordination_geometry |-> cg.mp_symbol,
                        algorithm |-> k, optimization |-> optimization]
            /\ ReturnSearch(SeparationPlaneSearchOf(
                 Self, cg, cg.algorithms[k],
                 points_wcs_ctwcc(from_cg(cg, centering_type,
                                          include_central_site_in_centroid),
                                  NoPerm),
                 optimization, rng))
  /\ pc' = "done"
  /\ UNCHANGED <<allcg, centering_type, include_central_site_in_centroid, structure,
                 local_geometry, perfect_geometry>>

\* lgf.coordination_geometry_symmetry_measures_separation_plane(cg, algo,
\*   points_perfect) with the geometry H:6 and a separation plane that is not
\* of the catalog: a plane of four points with one point on each side, of which
\* three points at least are looked for
SeparationPlaneSearchWith ==
  /\ pc = "local"
  /\ Size(local_geometry.coords) = 6
  /\ \E rng \in Rngs :
       LET cg == CoordinationGeometryFile("H:6")
           algo == SeparationPlane(<<1, 2, 3, 4>>, FALSE, <<<<0>>, <<5>>>>,
                                   <<FALSE, FALSE>>, <<<<0, 1, 2, 3, 4, 5>>>>, 3)
       IN  /\ call' = [op |-> "separation_plane_with",
                       coordination_geometry |-> cg.mp_symbol, sep_plane |-> algo,
                       optimization |-> NoOptimization]
           /\ ReturnSearch(SeparationPlaneSearchOf(
                Self, cg, algo,
                points_wcs_ctwcc(from_cg(cg, centering_type,
                                         include_central_site_in_centroid),
                                 NoPerm),
                NoOptimization, rng))
  /\ pc' = "done"
  /\ UNCHANGED <<allcg, centering_type, include_central_site_in_centroid, structure,
                 local_geometry, perfect_geometry>>

\* the separation planes of the direct calls of _cg_csm_separation_plane: the
\* planes (2, 2, 2) and (1, 2, 3) of six points, neither ordered, each with the
\* identity as its one permutation
TestSeparationPlanes ==
  {SeparationPlane(<<2, 3>>, FALSE, <<<<0, 1>>, <<4, 5>>>>, <<FALSE, FALSE>>,
                   <<<<0, 1, 2, 3, 4, 5>>>>, 2),
   SeparationPlane(<<1, 2>>, FALSE, <<<<0>>, <<3, 4, 5>>>>, <<FALSE, FALSE>>,
                   <<<<0, 1, 2, 3, 4, 5>>>>, 2)}

\* the planes of the direct calls of _cg_csm_separation_plane: x = 1,
\* x = 11/10, y = 1/10 and y = 1/4
TestPlanes ==
  {VerticalPlane(1, 0, Rat(-1, 1)), VerticalPlane(1, 0, Rat(-11, 10)),
   VerticalPlane(0, 1, Rat(-1, 10)), VerticalPlane(0, 1, Rat(-1, 4))}

\* lgf._cg_csm_separation_plane(cg, sep_plane, local_plane, plane_separations=[],
\*   points_perfect=...) on a local geometry of six neighbors with integer
\* coordinates
CgCsmSeparationPlane ==
  /\ pc = "local"
  /\ Size(local_geometry.coords) = 6
  /\ local_geometry.coords.den = 1
  /\ \E sep_plane \in TestSeparationPlanes, local_plane \in TestPlanes :
       /\ call' = [op |-> "_cg_csm_separation_plane", sep_plane |-> sep_plane,
                   local_plane |-> local_plane]
       /\ ret' = [raised |-> "",
                  cgsm |-> _cg_csm_separation_plane(
                             Self, sep_plane, local_plane, <<>>,
                             points_wcs_ctwcc(
                               from_cg(CoordinationGeometryFile("H:6"), centering_type,
                                       include_central_site_in_centroid),
                               NoPerm))]
  /\ pc' = "done"
  /\ UNCHANGED <<allcg, centering_type, include_central_site_in_centroid, structure,
                 local_geometry, perfect_geometry>>

\* the body of the loop of
\* lgf.coordination_geometry_symmetry_measures_separation_plane_optim over the
\* combinations of neighbors, once, with empty caches on a local geometry of
\* six neighbors with integer coordinates: the plane of the combination is one
\* that stands on the plane of the points; the algorithm is one of the test
\* planes or the plane (1, 3, 2) of H:6
OptimPlaneStep ==
  /\ pc = "local"
  /\ Size(local_geometry.coords) = 6
  /\ local_geometry.coords.den = 1
  /\ \E separation_plane_algo \in
          TestSeparationPlanes \cup {CoordinationGeometryFile("H:6").algorithms[2]},
        plane \in TestPlanes, optimization \in {1, 2} :
       /\ call' = [op |-> "separation_plane_optim_plane",
                   algorithm |-> separation_plane_algo, plane |-> plane,
                   optimization |-> optimization]
       /\ LET out == OptimPlane(
                       Self, optimization, separation_plane_algo,
                       points_wcs_ctwcc(
                         from_cg(CoordinationGeometryFile("H:6"), centering_type,
                                 include_central_site_in_centroid),
                         NoPerm),
                       [result |-> EmptySearchResult, nb_set |-> EmptyNbSet],
                       <<0, 1>>, plane)
          IN  ret' = [raised |-> "", cgsm |-> out.result, nb_set |-> out.nb_set]
  /\ pc' = "done"
  /\ UNCHANGED <<allcg, centering_type, include_central_site_in_centroid, structure,
                 local_geometry, perfect_geometry>>

\* the groups (group A, points of the plane, group B) of the direct calls of
\* SeparationPlane
SeparationPlaneGroups ==
  {<<<<>>, <<0, 1, 2>>, <<>>>>, <<<<0>>, <<1, 2>>, <<3>>>>, <<<<0, 1>>, <<2>>, <<3>>>>,
   <<<<0>>, <<1>>, <<2, 3>>>>, <<<<0, 1>>, <<2, 3>>, <<>>>>, <<<<>>, <<0, 1>>, <<2, 3>>>>,
   <<<<3, 1, 0>>, <<2, 4>>, <<5>>>>, <<<<5>>, <<2, 4>>, <<3, 1, 0>>>>}

\* SeparationPlane(plane_points=..., point_groups=[..., ...],
\*   ordered_plane=..., minimum_number_of_points=2, explicit_permutations=[])
NewSeparationPlane ==
  /\ pc = "new"
  /\ \E groups \in SeparationPlaneGroups, ordered_plane \in BOOLEAN :
       /\ call' = [op |-> "SeparationPlane", plane_points |-> groups[2],
                   point_groups |-> <<groups[1], groups[3]>>,
                   ordered_plane |-> ordered_plane]
       /\ ret' = SeparationPlane(groups[2], ordered_plane, <<groups[1], groups[3]>>,
                                 <<FALSE, FALSE>>, <<>>, 2)
  /\ pc' = "done"
  /\ UNCHANGED <<allcg, centering_type, include_central_site_in_centroid, structure,
                 local_geometry, perfect_geometry>>

\* symmetry_measure(points_distorted, points_perfect) called on its own
SymmetryMeasure ==
  /\ pc = "new"
  /\ \E arguments \in SymmetryMeasureArguments :
       /\ call' = [op |-> "symmetry_measure", points_distorted |-> arguments[1],
                   points_perfect |-> arguments[2]]
       /\ ret' = symmetry_measure([view |-> "", pts |-> arguments[1]],
                                  [view |-> "", pts |-> arguments[2]])
  /\ pc' = "done"
  /\ UNCHANGED <<allcg, centering_type, include_central_site_in_centroid, structure,
                 local_geometry, perfect_geometry>>

(***************************************************************************)
(* compute_structure_environments over the sites of a structure: the       *)
(* neighbors sets of every site, their environments, the sets added from   *)
(* the hints and the time limit.                                           *)
(***************************************************************************)
\* the site of the structure that the Voronoi container of site isite lists
\* at voronoi_index: the other sites, in the order of the structure
VoronoiSite(isite, voronoi_index) ==
  IF voronoi_index < isite THEN voronoi_index ELSE voronoi_index + 1

\* StructureEnvironments.NeighborsSet(structure, isite, detailed_voronoi,
\*   site_voronoi_indices, sources)
NeighborsSet(isite, site_voronoi_indices, origin) ==
  [isite |-> isite,
   site_voronoi_indices |-> SortSeq(site_voronoi_indices, LAMBDA a, b : a < b),
   origin |-> origin,
   local_planes |-> <<>>,
   separations |-> <<>>]

\* NeighborsSet.__eq__
SameNeighborsSet(a, b) ==
  /\ a.isite = b.isite
  /\ a.site_voronoi_indices = b.site_voronoi_indices

\* nb_set.neighb_coords
neighb_coords(structure_, nb_set) ==
  [den |-> structure_.den,
   num |-> [k \in 1..Len(nb_set.site_voronoi_indices) |->
              structure_.num[VoronoiSite(nb_set.isite,
                                         nb_set.site_voronoi_indices[k]) + 1]]]

\* neighbors_sets[isite] = None, ce_list[isite] = None
NoNeighborsSets == [none |-> TRUE, sets |-> <<>>]
\* ce_list[isite][cn][inb_set] = None
NoEnvironments == [none |-> TRUE, coord_geoms |-> <<>>]
\* info["sites_info"][isite] of a site without information
NoSiteInfo == [none |-> TRUE, time |-> 0]

\* StructureEnvironments(voronoi, ..., ce_list=[None] * len(structure), ...):
\* ce_list[isite] holds the environments of the sets of neighbors_sets[isite],
\* set by set
NewStructureEnvironments(nsites) ==
  [neighbors_sets |-> [i \in 1..nsites |-> NoNeighborsSets],
   ce_list |-> [i \in 1..nsites |-> <<>>],
   sites_info |-> [i \in 1..nsites |-> NoSiteInfo]]

\* the place of nb_set in neighbors_sets[isite], 0 when it is not there
IndexOfNeighborsSet(se, isite, nb_set) ==
  LET sets == se.neighbors_sets[isite + 1].sets
      found == {k \in 1..Len(sets) : SameNeighborsSet(sets[k], nb_set)}
  IN  IF found = {} THEN 0 ELSE CHOOSE k \in found : \A j \in found : k <= j

\* inb_set of the set at place at: its index among the sets of its cn
InbSet(sets, at) ==
  Cardinality({k \in 1..(at - 1) :
                 Len(sets[k].site_voronoi_indices) = Len(sets[at].site_voronoi_indices)})

\* StructureEnvironments.add_neighbors_set(isite, nb_set)
add_neighbors_set(se, isite, nb_set) ==
  IF IndexOfNeighborsSet(se, isite, nb_set) # 0
  THEN se
  ELSE [se EXCEPT
          !.neighbors_sets[isite + 1] = [none |-> FALSE, sets |-> Append(@.sets, nb_set)],
          !.ce_list[isite + 1] = Append(@, NoEnvironments)]

\* the sets of neighbors that the Voronoi container gives for site isite of
\* nsites sites: the other sites, and with several distance parameters also
\* the other sites but the last
VoronoiNeighborsSets(nsites, isite, distance_parameters) ==
  (IF distance_parameters > 1 /\ nsites > 2
   THEN <<NeighborsSet(isite, [k \in 1..(nsites - 2) |-> k - 1], "dist_ang_ac_voronoi")>>
   ELSE <<>>)
  \o <<NeighborsSet(isite, [k \in 1..(nsites - 1) |-> k - 1], "dist_ang_ac_voronoi")>>

RECURSIVE AddNeighborsSets(_, _, _, _)
\* add_neighbors_set for the sets from k on
AddNeighborsSets(se, isite, nb_sets, k) ==
  IF k > Len(nb_sets) THEN se
  ELSE AddNeighborsSets(add_neighbors_set(se, isite, nb_sets[k]), isite, nb_sets, k + 1)

\* StructureEnvironments.init_neighbors_sets(isite)
init_neighbors_sets(se, nsites, isite, distance_parameters) ==
  AddNeighborsSets(se, isite, VoronoiNeighborsSets(nsites, isite, distance_parameters), 1)

\* the places of the sets of neighbors_sets[isite] in the order of
\* neighbors_sets[isite].items(): cn by cn as first added, set by set
ItemsOrder(sets) ==
  LET cn(k) == Len(sets[k].site_voronoi_indices)
      first(k) == CHOOSE j \in 1..k : cn(j) = cn(k) /\ \A i \in 1..(j - 1) : cn(i) # cn(k)
  IN  SortSeq([k \in 1..Len(sets) |-> k],
              LAMBDA a, b : first(a) < first(b) \/ (first(a) = first(b) /\ a < b))

\* the caches of nb_set left as they are
KeepCaches(nb_set) == nb_set

\* nb_set.local_planes = {}; nb_set.separations = {}
ResetCaches(nb_set) ==
  [nb_set EXCEPT !.local_planes = <<>>, !.separations = <<>>]

\* the caches of the neighbors set nb_set
CachesOf(nb_set) ==
  [local_planes |-> nb_set.local_planes, separations |-> nb_set.separations]

\* update_nb_set_environments, what it leaves once the getter returned out for
\* the set at place at of neighbors_sets[isite]: the environments and the
\* caches of the set in se, self.local_geometry and self.perfect_geometry,
\* and the evaluation in the list of the evaluations
NbSetEvaluated(st, isite, at, g, searched, out) ==
  LET nb_set == st.se.neighbors_sets[isite + 1].sets[at]
      evaluation ==
        [isite |-> isite,
         cn |-> Len(nb_set.site_voronoi_indices),
         inb_set |-> InbSet(st.se.neighbors_sets[isite + 1].sets, at),
         site_voronoi_indices |-> nb_set.site_voronoi_indices,
         origin |-> nb_set.origin,
         found |-> CachesOf(nb_set),
         searched |-> searched,
         coord_geoms |-> out.result_dict]
  IN  IF out.raised # ""
      THEN [st EXCEPT !.raised = out.raised, !.msg = out.msg,
                      !.self.local_geometry = g]
      ELSE [st EXCEPT
              !.self.local_geometry = g,
              !.self.perfect_geometry = out.perfect_geometry,
              !.se.neighbors_sets[isite + 1].sets[at] =
                 [nb_set EXCEPT !.local_planes = out.nb_set.local_planes,
                                !.separations = out.nb_set.separations],
              !.se.ce_list[isite + 1][at] =
                 [none |-> FALSE, coord_geoms |-> out.result_dict],
              !.evaluations = Append(@, evaluation)]

\* update_nb_set_environments from setup_local_geometry on: g is the local
\* geometry of the set, nb_set the set once its caches are reset
NbSetSearched(st, isite, at, g, nb_set, optimization, rng) ==
  IF g.raised # ""
  THEN [st EXCEPT !.raised = g.raised, !.msg = g.msg]
  ELSE NbSetEvaluated(st, isite, at, g, CachesOf(nb_set),
         IF optimization > 0
         THEN get_coordination_symmetry_measures_optim(
                [st.self EXCEPT !.local_geometry = g], TRUE, TRUE, CachesOf(nb_set),
                optimization, rng)
         ELSE OptimOutcome(
                get_coordination_symmetry_measures(
                  [st.self EXCEPT !.local_geometry = g], TRUE, TRUE, NoOptimization, rng),
                CachesOf(nb_set)))

\* fault: the environments are computed whatever is stored
update_nb_set_environments_anew(st, isite, at, recompute, optimization, rng) ==
  NbSetSearched(st, isite, at,
    AbstractGeometry(Row(st.self.structure, isite + 1),
                     neighb_coords(st.self.structure,
                                   st.se.neighbors_sets[isite + 1].sets[at]),
                     st.self.centering_type,
                     st.self.include_central_site_in_centroid),
    IF optimization > 0 THEN ResetCaches(st.se.neighbors_sets[isite + 1].sets[at])
    ELSE st.se.neighbors_sets[isite + 1].sets[at],
    optimization, rng)

\* update_nb_set_environments(se, isite, cn, inb_set, nb_set, recompute,
\*   optimization) for the set at place at of neighbors_sets[isite]
update_nb_set_environments(st, isite, at, recompute, optimization, rng) ==
  LET nb_set == st.se.neighbors_sets[isite + 1].sets[at]
  IN  IF ~st.se.ce_list[isite + 1][at].none /\ ~recompute
      THEN st
      ELSE NbSetSearched(st, isite, at,
             AbstractGeometry(Row(st.self.structure, isite + 1),
                              neighb_coords(st.self.structure, nb_set),
                              st.self.centering_type,
                              st.self.include_central_site_in_centroid),
             IF optimization > 0 THEN ResetCaches(nb_set) ELSE nb_set,
             optimization, rng)

RECURSIVE HintsOfGeometry(_, _, _)
\* the loop over cg.neighbors_sets_hints from h on: the sets of Voronoi
\* indices that the hints suggest
HintsOfGeometry(neighbors_sets_hints, hints_info, h) ==
  IF h > Len(neighbors_sets_hints) THEN <<>>
  ELSE hints(neighbors_sets_hints[h], hints_info)
       \o HintsOfGeometry(neighbors_sets_hints, hints_info, h + 1)

RECURSIVE HintsOfEnvironments(_, _, _, _)
\* for cg_symbol, cg_dict in ce, from k on: the sets of Voronoi indices that
\* the hints of the geometries suggest for nb_set
HintsOfEnvironments(allcg_, coord_geoms, nb_set, k) ==
  IF k > Len(coord_geoms) THEN <<>>
  ELSE HintsOfGeometry(
         get_geometry_from_mp_symbol(allcg_, coord_geoms[k].mp_symbol).cg.neighbors_sets_hints,
         [csm |-> coord_geoms[k].csm, nb_set |-> nb_set,
          permutation |-> coord_geoms[k].indices],
         1)
       \o HintsOfEnvironments(allcg_, coord_geoms, nb_set, k + 1)

RECURSIVE ToAddFromHintsUnchecked(_, _, _, _, _, _)
\* fault: the suggested sets within min_cn..max_cn are appended whether or
\* not to_add_from_hints or neighbors_sets[isite] holds them
ToAddFromHintsUnchecked(to_add_from_hints, se, isite, suggested, cns, k) ==
  IF k > Len(suggested) THEN to_add_from_hints
  ELSE ToAddFromHintsUnchecked(
         IF Len(suggested[k]) > cns.max_cn \/ Len(suggested[k]) < cns.min_cn
         THEN to_add_from_hints
         ELSE Append(to_add_from_hints, NeighborsSet(isite, suggested[k], "nb_set_hints")),
         se, isite, suggested, cns, k + 1)

RECURSIVE ToAddFromHints(_, _, _, _, _, _)
\* the loop over the suggested sets from k on: to_add_from_hints with the sets
\* within min_cn..max_cn that neither it nor neighbors_sets[isite] holds
ToAddFromHints(to_add_from_hints, se, isite, suggested, cns, k) ==
  IF k > Len(suggested) THEN to_add_from_hints
  ELSE
    LET new_nb_set == NeighborsSet(isite, suggested[k], "nb_set_hints")
        has_nb_set ==
          \/ \E j \in 1..Len(to_add_from_hints) :
               SameNeighborsSet(to_add_from_hints[j], new_nb_set)
          \/ IndexOfNeighborsSet(se, isite, new_nb_set) # 0
    IN  ToAddFromHints(
          IF Len(suggested[k]) > cns.max_cn \/ Len(suggested[k]) < cns.min_cn \/ has_nb_set
          THEN to_add_from_hints
          ELSE Append(to_add_from_hints, new_nb_set),
          se, isite, suggested, cns, k + 1)

\* the hints of the environments of the set at place at, whatever
\* get_from_hints
HintsAlwaysGot(st, isite, at, args) ==
  IF st.raised # "" THEN st
  ELSE [st EXCEPT !.to_add_from_hints =
          ToAddFromHints(@, st.se, isite,
            HintsOfEnvironments(st.self.allcg, st.se.ce_list[isite + 1][at].coord_geoms,
                                st.se.neighbors_sets[isite + 1].sets[at], 1),
            args, 1)]

\* if get_from_hints: the hints of the environments of the set at place at
HintsGot(st, isite, at, args) ==
  IF st.raised # "" \/ ~args.get_from_hints THEN st
  ELSE [st EXCEPT !.to_add_from_hints =
          ToAddFromHints(@, st.se, isite,
            HintsOfEnvironments(st.self.allcg, st.se.ce_list[isite + 1][at].coord_geoms,
                                st.se.neighbors_sets[isite + 1].sets[at], 1),
            args, 1)]

RECURSIVE NbSetsLoop(_, _, _, _, _)
\* for cn, nb_sets in struct_envs.neighbors_sets[site_idx].items(): the sets
\* at the places order[k], order[k + 1], ...
NbSetsLoop(st, isite, order, args, k) ==
  IF k > Len(order) \/ st.raised # "" THEN st
  ELSE
    LET cn == Len(st.se.neighbors_sets[isite + 1].sets[order[k]].site_voronoi_indices)
    IN  IF cn < args.min_cn \/ cn > args.max_cn
        THEN NbSetsLoop(st, isite, order, args, k + 1)
        ELSE NbSetsLoop(
               HintsGot(update_nb_set_environments(st, isite, order[k], args.recompute,
                                                   args.optimization, args.rng),
                        isite, order[k], args),
               isite, order, args, k + 1)

\* the sets of to_add_from_hints left without environments
MissingNbSetsNotEvaluated(st, isite, args, k) == st

RECURSIVE MissingNbSetsLoop(_, _, _, _)
\* for missing_nb_set_to_add in to_add_from_hints, from k on:
\* update_nb_set_environments for the set, which add_neighbors_set added
MissingNbSetsLoop(st, isite, args, k) ==
  IF k > Len(st.to_add_from_hints) \/ st.raised # "" THEN st
  ELSE MissingNbSetsLoop(
         update_nb_set_environments(
           st, isite, IndexOfNeighborsSet(st.se, isite, st.to_add_from_hints[k]),
           FALSE, args.optimization, args.rng),
         isite, args, k + 1)

\* the sets of to_add_from_hints added to neighbors_sets[isite]; worklists
\* keeps to_add_from_hints as the loop over the sets of the site left it, with
\* the sets of the site and the number of evaluations at that point
MissingNbSetsAdded(st, isite) ==
  [st EXCEPT !.se = AddNeighborsSets(@, isite, st.to_add_from_hints, 1),
             !.worklists = Append(@, [isite |-> isite,
                                      to_add_from_hints |-> st.to_add_from_hints,
                                      neighbors_sets |-> st.se.neighbors_sets[isite + 1].sets,
                                      evaluated |-> Len(st.evaluations)])]

\* the body of the loop on the sites up to the environments of one site
SiteEnvironments(st, isite, args) ==
  MissingNbSetsLoop(
    MissingNbSetsAdded(
      NbSetsLoop(st, isite, ItemsOrder(st.se.neighbors_sets[isite + 1].sets), args, 1),
      isite),
    isite, args, 1)

\* timelimit=None
NoTimelimit == -1

\* the end of the body with max_time_one_site updated before the check
SiteTimedAfterMaximum(st, isite, args) ==
  IF st.raised # "" THEN st
  ELSE
    LET time == args.times[isite + 1]
    IN  [st EXCEPT
           !.se.sites_info[isite + 1] = [none |-> FALSE, time |-> time],
           !.time_elapsed = @ + time,
           !.break_it =
              \/ @
              \/ /\ args.timelimit # NoTimelimit
                 /\ args.timelimit - (st.time_elapsed + time)
                      < 2 * Max2(st.max_time_one_site, time),
           !.max_time_one_site = Max2(@, time)]

\* the end of the body of the loop on the sites: update_site_info and the
\* check of the time that is left, the site having taken args.times[isite]
SiteTimed(st, isite, args) ==
  IF st.raised # "" THEN st
  ELSE
    LET time == args.times[isite + 1]
    IN  [st EXCEPT
           !.se.sites_info[isite + 1] = [none |-> FALSE, time |-> time],
           !.time_elapsed = @ + time,
           !.break_it =
              \/ @
              \/ /\ args.timelimit # NoTimelimit
                 /\ args.timelimit - (st.time_elapsed + time) < 2 * st.max_time_one_site,
           !.max_time_one_site = Max2(@, time)]

\* the body of the loop on the sites from init_neighbors_sets on
SiteInitialised(st, isite, args) ==
  [st EXCEPT
     !.se = init_neighbors_sets(@, Size(st.self.structure), isite,
                                args.distance_parameters),
     !.to_add_from_hints = <<>>]

RECURSIVE SitesLoop(_, _, _)
\* for site_idx, site in enumerate(self.structure), from site_idx on
SitesLoop(st, args, site_idx) ==
  IF site_idx >= Size(st.self.structure) \/ st.raised # "" THEN st
  ELSE IF site_idx \notin args.sites_indices
  THEN SitesLoop(st, args, site_idx + 1)
  ELSE IF st.break_it
  THEN SitesLoop([st EXCEPT !.skipped = Append(@, site_idx)], args, site_idx + 1)
  ELSE SitesLoop(
         SiteTimed(SiteEnvironments(SiteInitialised(st, site_idx, args), site_idx, args),
                   site_idx, args),
         args, site_idx + 1)

\* compute_structure_environments(only_indices, min_cn, timelimit,
\*   initial_structure_environments, get_from_hints, recompute, optimization):
\* what it raises or returns, with the sites skipped for the time limit and
\* the evaluations of update_nb_set_environments in their order
compute_structure_environments(self, args) ==
  SitesLoop([raised |-> "", msg |-> "", self |-> self,
             se |-> args.initial_structure_environments,
             to_add_from_hints |-> <<>>,
             evaluations |-> <<>>, skipped |-> <<>>, worklists |-> <<>>,
             time_elapsed |-> 0, max_time_one_site |-> 0, break_it |-> FALSE],
            args, 0)

(***************************************************************************)
(* The calls of compute_structure_environments over the sites.             *)
(***************************************************************************)
\* the sites whose environments are asked for are among the first MaxSites
MaxSites == 3
\* the time that the environments of one site take is 1..MaxSiteTime
MaxSiteTime == 2
\* the time limits are NoTimelimit, 1 and MaxTimelimit
MaxTimelimit == 4
\* initial_structure_environments is the result of at most MaxResumes calls
MaxResumes == 1
\* the Voronoi container has 1..MaxDistanceParameters distance parameters
MaxDistanceParameters == 2

\* max_cn=None
DefaultMaxCn == 20

\* the structures whose sites get their environments: a site at the origin
\* and the first 3, 4 or 6 of the other sites
SiteStructures ==
  {IntArray(<<<<0, 0>>>> \o [i \in 1..n |-> Sites[i]]) : n \in {3, 4, 6}}

\* only_indices
OnlyIndices == {0..(MaxSites - 1), {0}, 1..(MaxSites - 1)}

\* the times of the sites: every site takes 1 without time limit
SiteTimes(timelimit) ==
  IF timelimit = NoTimelimit THEN {[i \in 1..MaxSites |-> 1]}
  ELSE [1..MaxSites -> 1..MaxSiteTime]

\* the arguments of compute_structure_environments: the time limit is given
\* for the plain search of the first MaxSites sites with one distance
\* parameter, and min_cn for site 0 with several distance parameters
SitesArguments ==
  {args \in [only_indices : OnlyIndices,
             min_cn : {1, 3},
             timelimit : {NoTimelimit, 1, MaxTimelimit},
             get_from_hints : BOOLEAN,
             distance_parameters : 1..MaxDistanceParameters,
             optimization : {0, 1, 2}] :
     /\ args.timelimit # NoTimelimit =>
          /\ args.optimization = 0
          /\ args.min_cn = 1
          /\ args.distance_parameters = 1
          /\ args.only_indices = 0..(MaxSites - 1)
     /\ args.min_cn # 1 =>
          /\ args.distance_parameters = MaxDistanceParameters
          /\ args.only_indices = {0}
          /\ args.optimization = 0}

\* sites_indices = [*set(indices) & set(only_indices)]
SitesIndices(only_indices, nsites) ==
  only_indices \cap 0..(nsites - 1)

\* the arguments args with the sites, the times, the generator and
\* initial_structure_environments, recompute
SitesCall(args, times, rng, se, recompute) ==
  [sites_indices |-> SitesIndices(args.only_indices, Size(structure)),
   min_cn |-> args.min_cn,
   max_cn |-> DefaultMaxCn,
   timelimit |-> args.timelimit,
   times |-> times,
   get_from_hints |-> args.get_from_hints,
   distance_parameters |-> args.distance_parameters,
   optimization |-> args.optimization,
   rng |-> rng,
   initial_structure_environments |-> se,
   recompute |-> recompute]

\* what compute_structure_environments leaves: the StructureEnvironments
\* returned, self.local_geometry and self.perfect_geometry
SitesReturned(out) ==
  /\ ret' = [raised |-> out.raised, msg |-> out.msg, se |-> out.se,
             skipped |-> out.skipped, evaluations |-> out.evaluations,
             worklists |-> out.worklists]
  /\ local_geometry' = out.self.local_geometry
  /\ perfect_geometry' = out.self.perfect_geometry

\* se = lgf.compute_structure_environments(only_indices=..., min_cn=...,
\*   timelimit=..., get_from_hints=..., optimization=...)
ComputeStructureEnvironmentsOfSites ==
  /\ pc = "structure"
  /\ structure \in SiteStructures
  /\ \E args \in SitesArguments, rng \in Rngs :
       \E times \in SiteTimes(args.timelimit) :
         /\ call' = [op |-> "compute_structure_environments", args |-> args,
                     times |-> times, resumes |-> 0, recompute |-> FALSE]
         /\ SitesReturned(compute_structure_environments(
              Self, SitesCall(args, times, rng,
                              NewStructureEnvironments(Size(structure)), FALSE)))
  /\ pc' = "done"
  /\ UNCHANGED <<allcg, centering_type, include_central_site_in_centroid, structure>>

\* lgf.compute_structure_environments(..., initial_structure_environments=se,
\*   recompute=...) with the StructureEnvironments that the last call returned
\* and its arguments, without time limit
ResumeStructureEnvironments ==
  /\ pc = "done"
  /\ call.op = "compute_structure_environments"
  /\ call.resumes < MaxResumes
  /\ ret.raised = ""
  /\ \E recompute \in BOOLEAN, rng \in Rngs :
       LET args == [call.args EXCEPT !.timelimit = NoTimelimit]
       IN  /\ call' = [op |-> "compute_structure_environments", args |-> args,
                       times |-> [i \in 1..MaxSites |-> 1],
                       resumes |-> call.resumes + 1, recompute |-> recompute]
           /\ SitesReturned(compute_structure_environments(
                Self, SitesCall(args, [i \in 1..MaxSites |-> 1], rng, ret.se, recompute)))
  /\ pc' = "done"
  /\ UNCHANGED <<allcg, centering_type, include_central_site_in_centroid, structure>>

\* lgf.update_nb_set_environments(se, isite, cn, inb_set, nb_set, recompute,
\*   optimization) on the StructureEnvironments that
\* compute_structure_environments returned, for a set of one of its sites
UpdateNbSetEnvironments ==
  /\ pc = "done"
  /\ call.op = "compute_structure_environments"
  /\ call.resumes = 0
  /\ ret.raised = ""
  /\ \E isite \in 0..(Size(structure) - 1), recompute \in BOOLEAN, rng \in Rngs :
       \E at \in 1..Len(ret.se.neighbors_sets[isite + 1].sets) :
         /\ call' = [op |-> "update_nb_set_environments", isite |-> isite, at |-> at,
                     recompute |-> recompute, optimization |-> call.args.optimization]
         /\ SitesReturned(update_nb_set_environments(
              [raised |-> "", msg |-> "", self |-> Self, se |-> ret.se,
               to_add_from_hints |-> <<>>, evaluations |-> <<>>, skipped |-> <<>>,
               worklists |-> <<>>, time_elapsed |-> 0, max_time_one_site |-> 0,
               break_it |-> FALSE],
              isite, at, recompute, call.args.optimization, rng))
  /\ pc' = "done"
  /\ UNCHANGED <<allcg, centering_type, include_central_site_in_centroid, structure>>
(***************************************************************************)
(* Properties.  They read the last call, what it left in ret and the       *)
(* attributes of the finder.                                               *)
(***************************************************************************)
EngineCall == call.op = "compute_structure_environments"

\* the parameters that AbstractGeometry does not accept for n neighbors
Inconsistent(n) ==
  /\ include_central_site_in_centroid
  /\ \/ centering_type = "central_site"
     \/ centering_type = "standard" /\ n < 5

\* the entries of the returned dictionary for the geometry symbol
EntriesOf(symbol) ==
  SelectSeq(ret.result_dict, LAMBDA entry : entry.mp_symbol = symbol)

\* rows holds the points in some order
Reordering(rows, points) ==
  /\ Len(rows) = Len(points)
  /\ \A i \in 1..Len(points) :
       Cardinality({j \in 1..Len(rows) : rows[j] = points[i]})
         = Cardinality({j \in 1..Len(points) : points[j] = points[i]})

\* scale * rot * cc + trans
Transformed(cc, rot, scale, trans) == VAdd(MatVec(rot, VScale(scale, cc)), trans)

\* the structure is the central site and the reference points of the geometry
\* in some order, all of them scaled, rotated and translated
IsTransformedEnvironment(symbol, rot, scale, trans) ==
  LET cg == CoordinationGeometryFile(symbol)
  IN  /\ Size(structure) = cg.coordination + 1
      /\ Row(structure, 1) = Transformed(VZero, rot, scale, trans)
      /\ Reordering(Rows(Rest(structure)),
                    [i \in 1..Len(cg.points) |->
                       Transformed(cg.points[i], rot, scale, trans)])

NoRotation == <<<<ROne, RZero>>, <<RZero, ROne>>>>

\* the same without scaling, rotation or translation
IsPerfectEnvironment(symbol) == IsTransformedEnvironment(symbol, NoRotation, ROne, VZero)

\* the geometry that an engine call is restricted to
OnlySymbol == call.only_symbols[1]

\* the engine run on a perfect environment with parameters that
\* AbstractGeometry accepts
EngineRestrictedToPerfectEnvironment ==
  /\ EngineCall
  /\ call.only_symbols # AllSymbols
  /\ ~CoordinationGeometryFile(OnlySymbol).deactivate
  /\ IsPerfectEnvironment(OnlySymbol)
  /\ ~Inconsistent(Size(structure) - 1)

\* C1: when compute_structure_environments is restricted to a geometry G and
\* the neighbors of the central site (at the origin) are the reference points
\* of G in any order, not scaled, rotated or translated, the call (with
\* parameters AbstractGeometry accepts) returns an entry for G whose continuous
\* symmetry measure is 0.
C1_PerfectEnvironmentMeasuresZero ==
  EngineRestrictedToPerfectEnvironment =>
    /\ ret.raised = ""
    /\ Len(EntriesOf(OnlySymbol)) = 1
    /\ EntriesOf(OnlySymbol)[1].csm = RZero

C1_Witness ==
  /\ EngineRestrictedToPerfectEnvironment
  /\ OnlySymbol = "H:6"
  /\ call.optimization = 2
  /\ Rows(Rest(structure)) # CoordinationGeometryFile("H:6").points
  /\ ret.raised = ""
  /\ EntriesOf("H:6")[1].csm = RZero

\* the shuffle of a perfect environment: neighbor i is reference point Shuffle[i]
Shuffle(symbol) ==
  LET cg == CoordinationGeometryFile(symbol)
  IN  [i \in 1..cg.coordination |->
         (CHOOSE k \in 1..cg.coordination : cg.points[k] = Row(structure, i + 1)) - 1]

\* reference point k is matched with neighbor indices[k], which is reference
\* point Shuffle[indices[k]]
Composed(symbol, indices) ==
  [k \in 1..Len(indices) |-> Shuffle(symbol)[indices[k] + 1]]

IsPermutation(perm, n) ==
  /\ Len(perm) = n
  /\ {perm[i] : i \in 1..n} = 0..(n - 1)

\* the reordering c of the points keeps every distance between two points and
\* every distance to the origin
IsSymmetry(points, c) ==
  /\ IsPermutation(c, Len(points))
  /\ \A i \in 1..Len(points) :
       VDot(points[c[i] + 1], points[c[i] + 1]) = VDot(points[i], points[i])
  /\ \A i, j \in 1..Len(points) :
       LET d == VSub(points[i], points[j])
           e == VSub(points[c[i] + 1], points[c[j] + 1])
       IN  VDot(d, d) = VDot(e, e)

\* C2: when the neighbors are the reference points of G reordered by a
\* shuffle, the permutation returned for G has measure 0 and, composed with the
\* shuffle, is a symmetry of G: a reordering of the reference points that
\* keeps all their distances (the identity only up to the symmetries of G).
C2_ComposedPermutationIsSymmetry ==
  EngineRestrictedToPerfectEnvironment =>
    /\ ret.raised = ""
    /\ Len(EntriesOf(OnlySymbol)) = 1
    /\ EntriesOf(OnlySymbol)[1].csm = RZero
    /\ IsSymmetry(CoordinationGeometryFile(OnlySymbol).points,
                  Composed(OnlySymbol, EntriesOf(OnlySymbol)[1].indices))

\* C2 as stated: the permutation returned, composed with the shuffle, is the
\* identity, that is, the permutation returned is the inverse of the shuffle.
C2_ReturnedPermutationInvertsShuffle ==
  (EngineRestrictedToPerfectEnvironment /\ ret.raised = "") =>
    /\ Len(EntriesOf(OnlySymbol)) = 1
    /\ Composed(OnlySymbol, EntriesOf(OnlySymbol)[1].indices)
         = Identity(CoordinationGeometryFile(OnlySymbol).coordination)

C2_Witness ==
  /\ EngineRestrictedToPerfectEnvironment
  /\ OnlySymbol = "S:4"
  /\ ret.raised = ""
  /\ Shuffle("S:4") # Identity(4)
  /\ Composed("S:4", EntriesOf("S:4")[1].indices) # Identity(4)
  /\ IsSymmetry(CoordinationGeometryFile("S:4").points,
                Composed("S:4", EntriesOf("S:4")[1].indices))

\* the array of the points scale * rot * p
TransformedArray(a, rot, scale) ==
  Array([i \in 1..Size(a) |-> Transformed(Row(a, i), rot, scale, VZero)])

\* C3: when the neighbors and the central site are the reference points of G
\* and the origin, scaled by a positive factor, rotated and translated, the
\* engine (with parameters AbstractGeometry accepts) returns measure 0 for G;
\* and symmetry_measure gives the same measure for a distorted set and for that
\* set rotated and scaled.
C3_SimilarityInvariance ==
  /\ \A symbol \in Symbols, rot \in Rotations, scale \in Scales, trans \in Translations :
       (/\ EngineCall
        /\ call.only_symbols \in {AllSymbols, <<symbol>>}
        /\ ~CoordinationGeometryFile(symbol).deactivate
        /\ IsTransformedEnvironment(symbol, rot, scale, trans)
        /\ ~Inconsistent(Size(structure) - 1))
       => /\ ret.raised = ""
          /\ Len(EntriesOf(symbol)) = 1
          /\ EntriesOf(symbol)[1].csm = RZero
  /\ \A rot \in Rotations, scale \in Scales :
       call.op = "symmetry_measure" =>
         symmetry_measure(
           [view |-> "", pts |-> TransformedArray(call.points_distorted, rot, scale)],
           [view |-> "", pts |-> call.points_perfect]).symmetry_measure
         = ret.symmetry_measure

C3_Witness ==
  /\ EngineCall
  /\ call.only_symbols = <<"H:6">>
  /\ \E rot \in Rotations \ {NoRotation}, scale \in Scales \ {ROne},
        trans \in Translations \ {VZero} :
       IsTransformedEnvironment("H:6", rot, scale, trans)
  /\ ret.raised = ""
  /\ EntriesOf("H:6")[1].csm = RZero

\* C4 as stated, first half: the measure returned by symmetry_measure is a
\* number that is not negative, whatever the two point sets are.
C4_MeasureIsNonNegative ==
  call.op = "symmetry_measure" =>
    /\ IsNum(ret.symmetry_measure)
    /\ RLeq(RZero, ret.symmetry_measure)

\* C5: symmetry_measure of a single distorted point returns measure 0 with
\* scaling factor None and rotation matrix None for every perfect set, and
\* for a local geometry with one neighbor the finder returns, without any call
\* of symmetry_measure, the entry S:1 with measure 0 and permutation [0], or
\* nothing when the catalog has no geometry of coordination 1.
C5_SinglePointShortCircuit ==
  /\ (call.op = "symmetry_measure" /\ Size(call.points_distorted) = 1) =>
       /\ ret.symmetry_measure = RZero
       /\ ret.scaling_factor_sq = None
       /\ ret.rotation_matrix = None
  /\ (/\ call.op \in {"get_coordination_symmetry_measures",
                      "get_coordination_symmetry_measures_optim",
                      "compute_structure_environments"}
      /\ ret.raised = ""
      /\ Size(local_geometry.coords) = 1) =>
       /\ ret.calls = <<>>
       /\ IF get_implemented_geometries(allcg, 1) = <<>>
          THEN ret.result_dict = <<>>
          ELSE /\ Len(ret.result_dict) = 1
               /\ ret.result_dict[1].mp_symbol = "S:1"
               /\ ret.result_dict[1].csm = RZero
               /\ ret.result_dict[1].indices = <<0>>

C5_Witness ==
  /\ call.op = "symmetry_measure"
  /\ Size(call.points_distorted) = 1
  /\ Size(call.points_perfect) = 3
  /\ call.points_distorted # First(call.points_perfect)
  /\ ret.symmetry_measure = RZero
  /\ ret.scaling_factor_sq = None

\* the centre that the centering convention asks for: n * centre is compared
\* with the sum of the points
IsCentreOf(centre, central_site, neighbors, centering, with_central_site) ==
  LET n == Size(neighbors)
      IsCentroid == IF with_central_site
                    THEN VScale(RInt(n + 1), centre) = VAdd(VSum(neighbors), central_site)
                    ELSE VScale(RInt(n), centre) = VSum(neighbors)
  IN  CASE centering = "central_site" -> centre = central_site
        [] centering = "centroid" -> IsCentroid
        [] centering = "standard" -> IF n < 5 THEN centre = central_site ELSE IsCentroid

\* C6: the centre of the local geometry is the central site for 'central_site',
\* the mean of the neighbors (with the central site as one more point when
\* include_central_site_in_centroid is set) for 'centroid', and for 'standard'
\* the central site below 5 neighbors and the centroid from 5 neighbors on;
\* coords is the neighbors minus that centre, in the order given.
C6_CentreAndTranslationOnly ==
  local_geometry # NoGeometry =>
    /\ local_geometry.centering_type = centering_type
    /\ local_geometry.include_central_site_in_centroid = include_central_site_in_centroid
    /\ IsCentreOf(local_geometry.centre, Row(structure, 1), Rest(structure),
                  centering_type, include_central_site_in_centroid)
    /\ Size(local_geometry.coords) = Size(structure) - 1
    /\ \A i \in 1..Size(local_geometry.coords) :
         VAdd(Row(local_geometry.coords, i), local_geometry.centre)
           = Row(structure, i + 1)

C6_Witness ==
  /\ call.op = "setup_local_geometry"
  /\ local_geometry # NoGeometry
  /\ centering_type = "standard"
  /\ include_central_site_in_centroid
  /\ Size(local_geometry.coords) = 5
  /\ local_geometry.centre # Row(structure, 1)

\* C7: building the local geometry with centering_type 'central_site', or
\* 'standard' and fewer than 5 neighbors, together with
\* include_central_site_in_centroid raises ValueError with the message that
\* include_central_site_in_centroid should be set to False, and no local
\* geometry is set.
C7_InconsistentParametersRaise ==
  (/\ call.op \in {"setup_local_geometry", "setup_test_perfect_environment",
                   "compute_structure_environments"}
   /\ structure # NoStructure
   /\ Inconsistent(Size(structure) - 1)) =>
    /\ ret.raised = "ValueError"
    /\ ret.msg = ValueErrorCentre
    /\ local_geometry = NoGeometry

C7_Witness ==
  /\ call.op = "setup_local_geometry"
  /\ centering_type = "standard"
  /\ include_central_site_in_centroid
  /\ Size(structure) - 1 = 4
  /\ ret.raised = "ValueError"
  /\ local_geometry = NoGeometry

\* the views of the two arguments of every call of symmetry_measure that the
\* last call of the finder made
SymmetryMeasureCalls ==
  IF call.op \in {"get_coordination_symmetry_measures",
                  "get_coordination_symmetry_measures_optim",
                  "compute_structure_environments"}
  THEN (IF "calls" \in DOMAIN ret THEN ret.calls ELSE <<>>)
  ELSE IF call.op \in {"coordination_geometry_symmetry_measures_fallback_random",
                       "separation_plane"}
  THEN ViewsOf(ret.cgsm.permutations_symmetry_measures)
  ELSE <<>>

\* C8: in every call of symmetry_measure made by the searches and by
\* _update_results_all_csms, the distorted points and the perfect points come
\* from the same view: the same centre and both with or both without the
\* central site.
C8_SameViewForBothPointSets ==
  \A i \in 1..Len(SymmetryMeasureCalls) :
    /\ SymmetryMeasureCalls[i][1] = SymmetryMeasureCalls[i][2]
    /\ \E t \in 1..Len(CsmTypes) : SymmetryMeasureCalls[i][1] = CsmTypes[t]

C8_Witness ==
  /\ EngineCall
  /\ call.optimization = 1
  /\ call.only_symbols = AllSymbols
  /\ ret.raised = ""
  /\ Size(local_geometry.coords) = 6
  /\ Len(ret.result_dict) = 2
  /\ Len(ret.calls) > 6 + n_random_default
  /\ \E i \in 1..Len(ret.calls) : ret.calls[i][1] = "wocs_csc"

GetterCall ==
  call.op \in {"get_coordination_symmetry_measures",
               "get_coordination_symmetry_measures_optim"}

\* the entry of geometry cg holds one result per permutation of its explicit
\* algorithm, in the order of the list
IsExplicitEntry(entry, cg) ==
  LET algo == cg.algorithms[1]
      points_perfect ==
        points_wcs_ctwcc(from_cg(cg, centering_type, include_central_site_in_centroid),
                         NoPerm)
  IN  /\ entry.indices = algo.permutations
      /\ Len(entry.csm) = Len(algo.permutations)
      /\ Len(entry.algo) = Len(algo.permutations)
      /\ \A i \in 1..Len(algo.permutations) :
           /\ entry.algo[i] = EXPLICIT_PERMUTATIONS
           /\ entry.csm[i].symmetry_measure
                = symmetry_measure(
                    points_wcs_ctwcc(local_geometry, algo.permutations[i]),
                    points_perfect).symmetry_measure

\* C9: for a geometry with explicit permutations the search returns exactly
\* one result per listed permutation, in list order, result i being the
\* measure of the local points reordered by permutation i, whatever the
\* optimization setting is.
C9_OneResultPerListedPermutation ==
  (/\ GetterCall
   /\ ~call.only_minimum
   /\ ret.raised = ""
   /\ Size(local_geometry.coords) > 1) =>
    LET test_geometries ==
          get_implemented_geometries(allcg, Size(local_geometry.coords))
    IN  \A k \in 1..Len(test_geometries) :
          test_geometries[k].algorithms[1].algorithm_type = EXPLICIT_PERMUTATIONS =>
            /\ Len(EntriesOf(test_geometries[k].mp_symbol)) = 1
            /\ IsExplicitEntry(EntriesOf(test_geometries[k].mp_symbol)[1],
                               test_geometries[k])

C9_Witness ==
  /\ call.op = "get_coordination_symmetry_measures"
  /\ ~call.only_minimum
  /\ call.optimization = 2
  /\ ret.raised = ""
  /\ Size(local_geometry.coords) = 4
  /\ Len(EntriesOf("S:4")) = 1
  /\ Len(EntriesOf("S:4")[1].csm) = 3
  /\ EntriesOf("S:4")[1].csm[1].symmetry_measure
       # EntriesOf("S:4")[1].csm[2].symmetry_measure

\* the lists are those of the random fallback with n_random draws for cn points
IsFallback(cgsm, n_random, cn) ==
  /\ Len(cgsm.permutations_symmetry_measures) = n_random
  /\ Len(cgsm.permutations) = n_random
  /\ Len(cgsm.algos) = n_random
  /\ \A i \in 1..n_random :
       /\ cgsm.algos[i] = "APPROXIMATE_FALLBACK"
       /\ IsPermutation(cgsm.permutations[i], cn)

SeparationPlaneCall == call.op = "separation_plane" /\ ret.raised = ""

\* the separation plane that the last search was called with
SearchedAlgorithm ==
  CoordinationGeometryFile(call.coordination_geometry).algorithms[call.algorithm]

\* C10: the plain and the optimized search with a separation plane never
\* return an empty list; when no plane gives the separation of the algorithm
\* (as for an algorithm with points outside the plane, the points of the model
\* being coplanar) they return the random fallback: n_random = 10 results, each
\* for a permutation of 0..CN-1 and tagged APPROXIMATE_FALLBACK; the fallback
\* called with n_random returns n_random such results.
C10_FallbackWhenNoSeparation ==
  /\ SeparationPlaneCall =>
       /\ Len(ret.cgsm.permutations_symmetry_measures) > 0
       /\ Len(ret.cgsm.permutations) = Len(ret.cgsm.permutations_symmetry_measures)
       /\ (\/ \E i \in 1..Len(ret.cgsm.algos) :
                ret.cgsm.algos[i] = "APPROXIMATE_FALLBACK"
           \/ SearchedAlgorithm.separation[1] + SearchedAlgorithm.separation[3] > 0)
          => IsFallback(ret.cgsm, n_random_default, Size(local_geometry.coords))
  /\ call.op = "coordination_geometry_symmetry_measures_fallback_random" =>
       IsFallback(ret.cgsm, call.n_random, Size(local_geometry.coords))

C10_Witness ==
  /\ SeparationPlaneCall
  /\ call.optimization = 2
  /\ SearchedAlgorithm.separation = <<1, 3, 2>>
  /\ IsFallback(ret.cgsm, n_random_default, 6)


(***************************************************************************)
(* Properties of the getters: what they keep of the candidates of each     *)
(* geometry.                                                               *)
(***************************************************************************)
\* a <= b on float64: False when either is nan
FLeq(a, b) ==
  /\ a # NaN
  /\ b # NaN
  /\ \/ b = Inf
     \/ IsNum(a) /\ IsNum(b) /\ RLeq(a, b)

\* test_geometries of the last getter
TestGeometries == get_implemented_geometries(allcg, Size(local_geometry.coords))

\* points_perfect of the loop over the test geometries
PointsPerfectOf(geometry) ==
  points_wcs_ctwcc(from_cg(geometry, centering_type, include_central_site_in_centroid),
                   NoPerm)

\* whether the last getter searched with coordination_geometry_symmetry_measures
PlainSearch ==
  \/ call.op = "get_coordination_symmetry_measures"
  \/ \A k \in 1..Len(TestGeometries) :
       TestGeometries[k].algorithms[1].algorithm_type = EXPLICIT_PERMUTATIONS

RECURSIVE CandidateLists(_, _, _)
\* cgsm of the geometries from k on, as the loop of the last getter gets them
\* with the generator rng and the caches nb_set
CandidateLists(rng, k, nb_set) ==
  IF k > Len(TestGeometries) THEN <<>>
  ELSE IF PlainSearch
  THEN <<coordination_geometry_symmetry_measures(
           Self, TestGeometries[k], PointsPerfectOf(TestGeometries[k]),
           call.optimization, rng)>>
       \o CandidateLists(rng, k + 1, nb_set)
  ELSE LET cgsm == coordination_geometry_symmetry_measures_sepplane_optim(
                     Self, TestGeometries[k], PointsPerfectOf(TestGeometries[k]),
                     nb_set, call.optimization, rng)
       IN  <<cgsm.result>> \o CandidateLists(rng, k + 1, cgsm.nb_set)

\* entry is candidate i of cgsm
IsCandidate(entry, cgsm, i) ==
  /\ entry.csm = cgsm.permutations_symmetry_measures[i].symmetry_measure
  /\ entry.indices = cgsm.permutations[i]
  /\ entry.algo = cgsm.algos[i]
  /\ entry.local2perfect_map = cgsm.local2perfect_maps[i]
  /\ entry.perfect2local_map = cgsm.perfect2local_maps[i]

\* candidate i of cgsm has the least measure and is the first that has it
IsFirstMinimum(cgsm, i) ==
  /\ \A j \in 1..Len(cgsm.permutations_symmetry_measures) :
       FLeq(cgsm.permutations_symmetry_measures[i].symmetry_measure,
            cgsm.permutations_symmetry_measures[j].symmetry_measure)
  /\ \A j \in 1..(i - 1) :
       cgsm.permutations_symmetry_measures[j].symmetry_measure
         # cgsm.permutations_symmetry_measures[i].symmetry_measure

\* a getter that returned with only_minimum set, for several neighbors
MinimumCall ==
  /\ GetterCall
  /\ call.only_minimum
  /\ ret.raised = ""
  /\ Size(local_geometry.coords) > 1

\* the result holds, for every geometry with candidates, the first candidate
\* of least measure, and nothing for a geometry without candidates
KeepsFirstMinimum(candidates) ==
  \A k \in 1..Len(TestGeometries) :
    IF Len(candidates[k].permutations_symmetry_measures) = 0
    THEN EntriesOf(TestGeometries[k].mp_symbol) = <<>>
    ELSE /\ Len(EntriesOf(TestGeometries[k].mp_symbol)) = 1
         /\ \E i \in 1..Len(candidates[k].permutations_symmetry_measures) :
              /\ IsCandidate(EntriesOf(TestGeometries[k].mp_symbol)[1], candidates[k], i)
              /\ IsFirstMinimum(candidates[k], i)

\* the measures of the candidates are numbers
MeasuresAreNumbers(candidates) ==
  \A k \in 1..Len(candidates) :
    \A i \in 1..Len(candidates[k].permutations_symmetry_measures) :
      IsNum(candidates[k].permutations_symmetry_measures[i].symmetry_measure)

KeepsMinimumOfNumbers(candidates) ==
  IF MeasuresAreNumbers(candidates) THEN KeepsFirstMinimum(candidates)
  ELSE \A k \in 1..Len(TestGeometries) :
         /\ Len(EntriesOf(TestGeometries[k].mp_symbol)) = 1
         /\ IsCandidate(EntriesOf(TestGeometries[k].mp_symbol)[1], candidates[k], 1)
         /\ EntriesOf(TestGeometries[k].mp_symbol)[1].csm = NaN

ReturnedMinimumMap ==
  /\ \/ GetterCall /\ call.only_minimum
     \/ EngineCall
  /\ ret.raised = ""

\* C12 as stated: the map returned for one neighbors set holds its entries in
\* ascending order of their measure, the first entry being the best geometry.
C12_ResultOrderedByAscendingCsm ==
  ReturnedMinimumMap =>
    \A i, j \in 1..Len(ret.result_dict) :
      i < j => FLeq(ret.result_dict[i].csm, ret.result_dict[j].csm)

\* the last call searched the geometries for a local geometry that was built
SearchedLocalGeometry ==
  \/ GetterCall
  \/ EngineCall /\ ~Inconsistent(Size(structure) - 1)

\* the geometry of the catalog that the entry names is implemented, active and
\* of coordination n
IsImplementedOfCoordination(cg, n) ==
  /\ cg.coordination = n
  /\ cg.points # NoPoints
  /\ ~cg.deactivate

C14_BestMatchNeverRaises ==
  (SearchedLocalGeometry /\ Size(local_geometry.coords) >= 1) => ret.raised = ""

(***************************************************************************)
(* Properties of compute_structure_environments over the sites.            *)
(***************************************************************************)
\* compute_structure_environments returned a StructureEnvironments
SitesCallReturned ==
  /\ pc = "done"
  /\ call.op = "compute_structure_environments"
  /\ ret.raised = ""

\* the sites whose environments the last call asked for
RequestedSites == SitesIndices(call.args.only_indices, Size(structure))

RECURSIVE TimeUpTo(_)
\* the time of the requested sites 0..site_idx
TimeUpTo(site_idx) ==
  IF site_idx < 0 THEN 0
  ELSE TimeUpTo(site_idx - 1)
       + (IF site_idx \in RequestedSites THEN call.times[site_idx + 1] ELSE 0)

\* the check of the time limit trips after the requested site site_idx, the
\* requested sites before it having got their environments
TimelimitTrips(site_idx) ==
  /\ call.args.timelimit # NoTimelimit
  /\ \E longest \in {0} \cup {call.times[s + 1] : s \in {r \in RequestedSites : r < site_idx}} :
       /\ \A s \in {r \in RequestedSites : r < site_idx} : call.times[s + 1] <= longest
       /\ call.args.timelimit - TimeUpTo(site_idx) < 2 * longest

\* the sites after a requested site at which the check of the time limit trips
SitesAfterTrip ==
  {s \in RequestedSites : \E e \in RequestedSites : e < s /\ TimelimitTrips(e)}

\* nothing of site isite is in the StructureEnvironments returned
SiteUntouched(isite) ==
  /\ ret.se.neighbors_sets[isite + 1] = NoNeighborsSets
  /\ ret.se.ce_list[isite + 1] = <<>>
  /\ ret.se.sites_info[isite + 1] = NoSiteInfo
  /\ \A k \in 1..Len(ret.evaluations) : ret.evaluations[k].isite # isite

\* site isite has its neighbors sets, the environments of every set within
\* min_cn..max_cn, the sets from the hints among them, and its information
SiteComplete(isite) ==
  LET sets == ret.se.neighbors_sets[isite + 1].sets
  IN  /\ ~ret.se.neighbors_sets[isite + 1].none
      /\ \A k \in 1..Len(VoronoiNeighborsSets(Size(structure), isite,
                                               call.args.distance_parameters)) :
           IndexOfNeighborsSet(
             ret.se, isite,
             VoronoiNeighborsSets(Size(structure), isite,
                                  call.args.distance_parameters)[k]) # 0
      /\ Len(ret.se.ce_list[isite + 1]) = Len(sets)
      /\ \A k \in 1..Len(sets) :
           (/\ Len(sets[k].site_voronoi_indices) >= call.args.min_cn
            /\ Len(sets[k].site_voronoi_indices) <= DefaultMaxCn)
             => ~ret.se.ce_list[isite + 1][k].none
      /\ ~ret.se.sites_info[isite + 1].none

\* C15: the time limit is checked between the sites only.  Once the check
\* trips after a site, every later site is skipped as a whole and the flag
\* does not reset: in the StructureEnvironments returned every site asked for
\* up to the trip is complete (all its neighbors sets within the
\* coordination range evaluated, those from the hints too) and every site
\* after it, like every site not asked for, is untouched.
C15_SitesCompleteOrUntouched ==
  (SitesCallReturned /\ call.resumes = 0) =>
    /\ {ret.skipped[k] : k \in 1..Len(ret.skipped)} = SitesAfterTrip
    /\ \A isite \in 0..(Size(structure) - 1) :
         IF isite \in RequestedSites \ SitesAfterTrip
         THEN SiteComplete(isite)
         ELSE SiteUntouched(isite)

\* the check tripped after site 0, whose sets from the hints were evaluated,
\* and the two sites after it were skipped
C15_Witness ==
  /\ SitesCallReturned
  /\ call.resumes = 0
  /\ call.args.get_from_hints
  /\ TimelimitTrips(0)
  /\ ret.skipped = <<1, 2>>
  /\ \E k \in 1..Len(ret.evaluations) :
       /\ ret.evaluations[k].isite = 0
       /\ ret.evaluations[k].origin = "nb_set_hints"

\* the coordination numbers that have environments for site isite in se
CnsWithEnvironments(se, isite) ==
  {Len(se.neighbors_sets[isite + 1].sets[k].site_voronoi_indices) :
     k \in {j \in 1..Len(se.ce_list[isite + 1]) : ~se.ce_list[isite + 1][j].none}}

\* the neighbors sets of site isite in se are those of the Voronoi container
OnlyVoronoiNeighborsSets(se, isite) ==
  LET supplied == VoronoiNeighborsSets(Size(structure), isite, call.args.distance_parameters)
  IN  /\ Len(se.neighbors_sets[isite + 1].sets) = Len(supplied)
      /\ \A k \in 1..Len(supplied) :
           SameNeighborsSet(se.neighbors_sets[isite + 1].sets[k], supplied[k])

\* se holds, for every site, the neighbors sets of without and for each of
\* them the same environments, and environments for the coordination numbers
\* of without at least
ExtendsEnvironments(se, without) ==
  \A isite \in RequestedSites :
    /\ CnsWithEnvironments(without, isite) \subseteq CnsWithEnvironments(se, isite)
    /\ Len(without.neighbors_sets[isite + 1].sets) <= Len(se.neighbors_sets[isite + 1].sets)
    /\ \A k \in 1..Len(without.neighbors_sets[isite + 1].sets) :
         /\ SameNeighborsSet(se.neighbors_sets[isite + 1].sets[k],
                             without.neighbors_sets[isite + 1].sets[k])
         /\ se.ce_list[isite + 1][k] = without.ce_list[isite + 1][k]

\* the StructureEnvironments of the last call with get_from_hints=False
WithoutHints(rng) ==
  compute_structure_environments(
    Self,
    SitesCall([call.args EXCEPT !.get_from_hints = FALSE], call.times, rng,
              NewStructureEnvironments(Size(structure)), FALSE)).se

\* C16: the hints only add.  With get_from_hints=False no neighbors set but
\* those of the neighbor finder is evaluated, so that a coordination number
\* that only a hint reaches has no environments; with get_from_hints=True on
\* the same input the coordination numbers with environments are a superset
\* of those without hints and the environments of the neighbors sets of the
\* neighbor finder are equal to those without hints.
C16_HintsOnlyAdd ==
  (SitesCallReturned /\ call.resumes = 0) =>
    IF call.args.get_from_hints
    THEN \E rng \in Rngs : ExtendsEnvironments(ret.se, WithoutHints(rng))
    ELSE /\ \A k \in 1..Len(ret.evaluations) :
              ret.evaluations[k].origin # "nb_set_hints"
         /\ \A isite \in RequestedSites :
              \/ \E k \in 1..Len(ret.skipped) : ret.skipped[k] = isite
              \/ OnlyVoronoiNeighborsSets(ret.se, isite)

\* with the hints site 0 has environments for a coordination number that it
\* has not without them
C16_Witness ==
  /\ SitesCallReturned
  /\ call.resumes = 0
  /\ call.args.get_from_hints
  /\ 0 \in RequestedSites
  /\ \E rng \in Rngs :
       /\ CnsWithEnvironments(WithoutHints(rng), 0) # {}
       /\ CnsWithEnvironments(ret.se, 0) \ CnsWithEnvironments(WithoutHints(rng), 0) # {}

\* the sets of Voronoi indices, within min_cn..max_cn, that the hints of the
\* environments found by the evaluation ev suggest
SuggestedBy(ev) ==
  LET suggested ==
        HintsOfEnvironments(allcg, ev.coord_geoms,
                            NeighborsSet(ev.isite, ev.site_voronoi_indices, ev.origin), 1)
  IN  {suggested[k] : k \in {j \in 1..Len(suggested) :
                               /\ Len(suggested[j]) >= call.args.min_cn
                               /\ Len(suggested[j]) <= DefaultMaxCn}}

\* the returned StructureEnvironments hold the neighbors set of these Voronoi
\* indices for site isite, with its environments
HasEnvironments(isite, site_voronoi_indices) ==
  \E k \in 1..Len(ret.se.neighbors_sets[isite + 1].sets) :
    /\ SameNeighborsSet(ret.se.neighbors_sets[isite + 1].sets[k],
                        NeighborsSet(isite, site_voronoi_indices, "nb_set_hints"))
    /\ ~ret.se.ce_list[isite + 1][k].none

\* a call on new StructureEnvironments with get_from_hints=True has returned
HintsCallReturned ==
  SitesCallReturned /\ call.resumes = 0 /\ call.args.get_from_hints

NoCachesLeft ==
  \A i \in 1..Len(ret.se.neighbors_sets) :
    \A k \in 1..Len(ret.se.neighbors_sets[i].sets) :
      CachesOf(ret.se.neighbors_sets[i].sets[k]) = EmptyNbSet

\* every evaluation of the optimized search started from empty caches, and
\* an evaluation of the plain search was handed the caches as they were
SearchedOwnCaches ==
  \A k \in 1..Len(ret.evaluations) :
    IF call.args.optimization > 0
    THEN ret.evaluations[k].searched = EmptyNbSet
    ELSE ret.evaluations[k].searched = ret.evaluations[k].found

OptimSearchOf(k, nb_set, rng) ==
  coordination_geometry_symmetry_measures_sepplane_optim(
    Self, TestGeometries[k], PointsPerfectOf(TestGeometries[k]), nb_set,
    call.optimization, rng)

RECURSIVE CachesAfter(_, _, _)
\* the caches once the geometries j, j + 1, ... before geometry k were searched
\* from the caches nb_set
CachesAfter(j, k, nb_set) ==
  IF j >= k THEN nb_set
  ELSE CachesAfter(j + 1, k, OptimSearchOf(j, nb_set, [start |-> 0, step |-> 1, reverse |-> FALSE]).nb_set)

\* the measures of the candidate permutations of a search
CandidateMeasures(cgsm) ==
  {<<cgsm.result.permutations[i], cgsm.result.permutations_symmetry_measures[i].symmetry_measure>> :
     i \in 1..Len(cgsm.result.permutations)}

\* the optimized getter ran over the geometries of six neighbors, all searched
\* by separation planes
OptimSearchReturned ==
  /\ pc = "done"
  /\ call.op = "get_coordination_symmetry_measures_optim"
  /\ call.optimization \in {1, 2}
  /\ ret.raised = ""
  /\ ~PlainSearch

\* C19: the result for a geometry does not depend on the order in which the
\* geometries are searched: in the optimized search the candidate permutations
\* scored for a geometry, with their measures, are the same whether the
\* geometry is searched first, from empty caches, or after the geometries
\* before it have filled the caches.
C19_SearchIndependentOfOrder ==
  OptimSearchReturned =>
    \A k \in 1..Len(TestGeometries) : \A rng \in Rngs :
      CandidateMeasures(OptimSearchOf(k, EmptyNbSet, rng))
        = CandidateMeasures(OptimSearchOf(k, CachesAfter(1, k, EmptyNbSet), rng))


\* the random fallback was called and has returned
FallbackCallReturned ==
  /\ pc = "done"
  /\ call.op = "coordination_geometry_symmetry_measures_fallback_random"
  /\ ret.raised = ""

\* the geometry of the last call of the random fallback
FallbackGeometry ==
  CoordinationGeometryFile(call.coordination_geometry)

\* what the random fallback returns for the input of the last call when its
\* generator draws the stream rng
FallbackRun(rng) ==
  coordination_geometry_symmetry_measures_fallback_random(
    Self, FallbackGeometry, call.n_random,
    points_wcs_ctwcc(from_cg(FallbackGeometry, "centroid", FALSE), NoPerm), rng)

\* C20: two runs on the same input return identical results, the runs that
\* invoke the random fallback included: what the fallback returned is what
\* any other run of it on the same input returns.
C20_RunsReproducible ==
  FallbackCallReturned => \A rng \in Rngs : ret.cgsm = FallbackRun(rng)

\* the calls that are queries: compute_structure_environments, the getters of
\* the symmetry measures and the searches of permutations
QueryOps ==
  {"compute_structure_environments", "get_coordination_symmetry_measures",
   "get_coordination_symmetry_measures_optim", "separation_plane",
   "coordination_geometry_symmetry_measures_fallback_random"}

\* C21: the catalog of the reference geometries is read-only for the queries:
\* no call of compute_structure_environments, of a getter of the symmetry
\* measures or of a search of permutations modifies or replaces self.allcg.
C21_CatalogReadOnly ==
  [][call'.op \in QueryOps => allcg' = allcg]_vars

\* the separation plane algorithm algo has at most as many points in its first
\* group as in its second, its separation holds the sizes of its groups and
\* its maximum number of points is the size of its plane
IsSeparationPlane(algo) ==
  /\ Len(algo.point_groups[1]) <= Len(algo.point_groups[2])
  /\ algo.separation = <<Len(algo.point_groups[1]), Len(algo.plane_points),
                         Len(algo.point_groups[2])>>
  /\ algo.maximum_number_of_points = Len(algo.plane_points)

\* the constructor of SeparationPlane was called and has returned or raised
SeparationPlaneCalled ==
  pc = "done" /\ call.op = "SeparationPlane"

\* C22: every SeparationPlane algorithm that exists has |group A| <= |group B|:
\* the constructor raises RuntimeError when the first group is larger than the
\* second, and an algorithm that was constructed, by a call or for the
\* catalog, has separation = (|A|, |P|, |B|) and maximum_number_of_points =
\* |P|.
C22_FirstGroupNotLarger ==
  /\ SeparationPlaneCalled =>
       IF Len(call.point_groups[1]) > Len(call.point_groups[2])
       THEN ret.raised = "RuntimeError"
       ELSE /\ ret.raised = ""
            /\ ret.plane_points = call.plane_points
            /\ ret.point_groups = call.point_groups
            /\ IsSeparationPlane(ret)
  /\ \A g \in 1..Len(allcg.cg_list) :
       \A k \in 1..Len(allcg.cg_list[g].algorithms) :
         allcg.cg_list[g].algorithms[k].algorithm_type = SEPARATION_PLANE =>
           IsSeparationPlane(allcg.cg_list[g].algorithms[k])

\* the constructor was given a first group larger than the second and raised
C22_Witness ==
  /\ SeparationPlaneCalled
  /\ Len(call.point_groups[1]) = 3
  /\ Len(call.point_groups[2]) = 1
  /\ ret.raised = "RuntimeError"

\* the sizes of the three groups of a separation
SeparationSizes(separation) ==
  <<Len(separation[1]), Len(separation[2]), Len(separation[3])>>

\* the sizes are those of the algorithm, in the original or the mirrored order
FitsAlgorithm(sizes, algo) ==
  \/ sizes = algo.separation
  \/ sizes = <<algo.separation[3], algo.separation[2], algo.separation[1]>>

\* _cg_csm_separation_plane was called with one plane and has returned
CgCsmCalled ==
  pc = "done" /\ call.op = "_cg_csm_separation_plane"

\* the separation that the plane of the call induces with tolerance t
InducedSeparation(t) ==
  sort_separation(indices_separate(call.local_plane, local_geometry.coords.num,
                                   DIST_TOLERANCES[t]))

\* the tolerances with which the plane of the call induces a separation of the
\* sizes of the algorithm
FittingTolerances ==
  {t \in 1..Len(DIST_TOLERANCES) :
     FitsAlgorithm(SeparationSizes(InducedSeparation(t)), call.sep_plane)}

\* the optimized search has returned: of one algorithm, or of one plane of it
OptimSearched ==
  /\ pc = "done"
  /\ \/ call.op = "separation_plane_optim_plane"
     \/ call.op = "separation_plane" /\ call.optimization \in {1, 2}
  /\ ret.raised = ""

\* C23: no permutation is scored for a separation-plane algorithm from a
\* separation whose group sizes differ from the reference sizes (|A|, |P|, |B|)
\* of the algorithm in both orders; an accepted separation is passed on with
\* sizes exactly (|A|, |P|, |B|); and the optimized search caches no
\* separation whose sizes are not registered in allcg.separations_cg for the
\* coordination number, nor scores one.
C23_OnlyFittingSeparations ==
  /\ CgCsmCalled =>
       /\ \A k \in 1..Len(ret.cgsm.plane_separations) :
            /\ SeparationSizes(ret.cgsm.plane_separations[k]) = call.sep_plane.separation
            /\ \E t \in FittingTolerances :
                 ret.cgsm.plane_separations[k][2] = InducedSeparation(t)[2]
       /\ Len(ret.cgsm.permutations) =
            Len(ret.cgsm.plane_separations) * Len(call.sep_plane.permutations)
       /\ Len(ret.cgsm.permutations_symmetry_measures) = Len(ret.cgsm.permutations)
       /\ FittingTolerances = {} => Len(ret.cgsm.permutations) = 0
  /\ OptimSearched =>
       /\ \A k \in 1..Len(ret.nb_set.separations) :
            /\ ret.nb_set.separations[k].sep
                 \in allcg.separations_cg[Size(local_geometry.coords)]
            /\ ret.nb_set.separations[k].sep =
                 SeparationSizes(ret.nb_set.separations[k].separation)
       /\ call.op = "separation_plane_optim_plane" =>
            /\ call.algorithm.separation
                 \notin allcg.separations_cg[Size(local_geometry.coords)] =>
                 Len(ret.cgsm.permutations) = 0
            /\ Len(ret.cgsm.permutations) > 0 =>
                 \E k \in 1..Len(ret.nb_set.separations) :
                   ret.nb_set.separations[k].sep = call.algorithm.separation

\* a separation of the sizes (1, 2, 3) of the algorithm was accepted and scored
C23_Witness ==
  /\ CgCsmCalled
  /\ call.sep_plane.separation = <<1, 2, 3>>
  /\ Len(ret.cgsm.plane_separations) = 1
  /\ Len(ret.cgsm.permutations) = 1

\* the optimized search of one plane has cached the separation (0, 6, 0) alone,
\* the other separations of the plane not being registered
C23_WitnessOptim ==
  /\ OptimSearched
  /\ call.op = "separation_plane_optim_plane"
  /\ Len(ret.nb_set.local_planes) = 1
  /\ Len(ret.nb_set.separations) = 1
  /\ ret.nb_set.separations[1].sep = <<0, 6, 0>>

\* the first of the tolerances with which the plane of the call induces a
\* separation of the sizes of the algorithm
FirstFittingTolerance ==
  CHOOSE t \in FittingTolerances : \A u \in FittingTolerances : t <= u

\* C24: for each plane of the plain search the distance tolerances 0.02, 0.05,
\* 0.1, 0.2, 0.3 are tried in that order, all five of them whether a
\* separation was accepted or not; at most one separation of the plane is
\* accepted, with the first tolerance that yields one, and no permutation is
\* scored for the plane after those of that separation.
C24_AllTolerancesTried ==
  /\ DIST_TOLERANCES = <<Rat(2, 100), Rat(5, 100), Rat(1, 10), Rat(2, 10), Rat(3, 10)>>
  /\ CgCsmCalled =>
       /\ ret.cgsm.dist_tolerances = DIST_TOLERANCES
       /\ Len(ret.cgsm.plane_separations) <= 1
       /\ Len(ret.cgsm.plane_separations) = 1 =>
            /\ FittingTolerances # {}
            /\ ret.cgsm.plane_separations[1][2] =
                 InducedSeparation(FirstFittingTolerance)[2]
       /\ Len(ret.cgsm.permutations) <= Len(call.sep_plane.permutations)

\* C24 as stated: the trial of the tolerances stops at the first tolerance
\* that yields an accepted separation and no looser tolerance is tried.
C24_StopsAtFirstAccepted ==
  CgCsmCalled =>
    ret.cgsm.dist_tolerances =
      IF FittingTolerances = {} THEN DIST_TOLERANCES
      ELSE SubSeq(DIST_TOLERANCES, 1, FirstFittingTolerance)

\* a separation was accepted with the third tolerance, not with the second,
\* and the fourth and the fifth tolerance were tried after it
C24_Witness ==
  /\ CgCsmCalled
  /\ FittingTolerances # {}
  /\ FirstFittingTolerance = 3
  /\ Len(ret.cgsm.plane_separations) = 1
  /\ Len(ret.cgsm.dist_tolerances) = 5

\* the combinations of neighbors of which the optimized search fits planes
SearchedCombinations ==
  CombinationsUpTo(Size(local_geometry.coords),
                   allcg.minpoints[Size(local_geometry.coords)],
                   Min2(allcg.maxpoints[Size(local_geometry.coords)], 3))

\* nb_set.local_planes holds each combination of the optimized search once, in
\* the order of the search
EachCombinationOnce(nb_set) ==
  /\ Len(nb_set.local_planes) = Len(SearchedCombinations)
  /\ \A m \in 1..Len(nb_set.local_planes) :
       nb_set.local_planes[m].combination = SearchedCombinations[m]

\* the entries of nb_set.separations have distinct keys
SeparationsOnce(nb_set) ==
  \A k, m \in 1..Len(nb_set.separations) :
    /\ nb_set.separations[k].sep = nb_set.separations[m].sep
    /\ nb_set.separations[k].separation = nb_set.separations[m].separation
    => k = m

\* the number of permutations that the algorithms of the geometry score from
\* the separations that nb_set holds for them
CachedPermutations(geometry, nb_set) ==
  LET Cached(k) ==
        IF geometry.algorithms[k].algorithm_type # SEPARATION_PLANE THEN 0
        ELSE Len(CachedSeparations(nb_set, geometry.algorithms[k]))
               * Len(geometry.algorithms[k].permutations)
      Total[k \in 0..Len(geometry.algorithms)] ==
        IF k = 0 THEN 0 ELSE Total[k - 1] + Cached(k)
  IN  Total[Len(geometry.algorithms)]

\* the search of geometry k, after the geometries before it, fits no plane
\* and scores the separations of the caches
ReusesCaches(k) ==
  LET nb_set == CachesAfter(1, k, EmptyNbSet)
      cgsm == OptimSearchOf(k, nb_set, [start |-> 0, step |-> 1, reverse |-> FALSE])
  IN  /\ cgsm.raised = ""
      /\ cgsm.nb_set = nb_set
      /\ CachedPermutations(TestGeometries[k], nb_set) > 0 =>
           Len(cgsm.result.permutations) = CachedPermutations(TestGeometries[k], nb_set)

\* C25: at optimization level 1 or 2, within the evaluation of one neighbor
\* set, a plane is fitted at most once per subset of point indices over all
\* the geometries and algorithms: nb_set.local_planes holds each subset once,
\* and a later geometry with the same separation sizes fits nothing and
\* scores the separations that the caches hold, with their planes.
C25_PlaneFittedOnce ==
  /\ OptimSearchReturned =>
       /\ EachCombinationOnce(ret.nb_set)
       /\ SeparationsOnce(ret.nb_set)
       /\ ret.nb_set = CachesAfter(1, 2, EmptyNbSet)
       /\ \A k \in 2..Len(TestGeometries) : ReusesCaches(k)
  /\ (OptimSearched /\ call.op = "separation_plane") => EachCombinationOnce(ret.nb_set)

\* the optimized getter searched two geometries, the second of them from the
\* planes and the separations that the first had left in the caches
C25_Witness ==
  /\ OptimSearchReturned
  /\ Len(TestGeometries) = 2
  /\ Len(ret.nb_set.local_planes) > 0
  /\ Len(ret.nb_set.separations) > 0
  /\ CachedPermutations(TestGeometries[2], ret.nb_set) > 0

\* the number of the candidates of cgsm that the algorithm algo_type gave
EntriesOfAlgorithm(cgsm, algo_type) ==
  Cardinality({i \in 1..Len(cgsm.algos) : cgsm.algos[i] = algo_type})

\* the separation plane algorithms of a geometry, as indices
SeparationPlaneAlgorithms(geometry) ==
  {k \in 1..Len(geometry.algorithms) :
     geometry.algorithms[k].algorithm_type = SEPARATION_PLANE}

\* the plain search with algorithm k of the geometry finds no plane with
\* permutations
FindsNoPlane(geometry, k) ==
  SepPlaneNpointsLoop(Self, geometry.algorithms[k], PointsPerfectOf(geometry),
                      PlanePoints(local_geometry),
                      geometry.algorithms[k].minimum_number_of_points,
                      SepPlaneStart).nplanes = 0

\* a getter called with only_minimum=True, all_csms=True, which the candidates
\* do not depend on, has returned for a local geometry whose geometries are
\* searched with separation planes
SeparationPlanesSearched ==
  /\ pc = "done"
  /\ GetterCall
  /\ call.only_minimum
  /\ call.all_csms
  /\ ret.raised = ""
  /\ \E k \in 1..Len(TestGeometries) : SeparationPlaneAlgorithms(TestGeometries[k]) # {}

\* a stream of the generator of the random fallback: the number of the results
\* of the fallback does not depend on it
FirstRng == [start |-> 0, step |-> 1, reverse |-> FALSE]

\* the random fallback enters the candidates of a geometry once for each of
\* its separation plane algorithms that scored nothing
FallbackPerAlgorithm(geometry, cgsm) ==
  /\ EntriesOfAlgorithm(cgsm, "APPROXIMATE_FALLBACK")
       \in {n_random_default * m : m \in 0..Cardinality(SeparationPlaneAlgorithms(geometry))}
  /\ EntriesOfAlgorithm(cgsm, "APPROXIMATE_FALLBACK")
       + EntriesOfAlgorithm(cgsm, SEPARATION_PLANE) = Len(cgsm.algos)
  /\ Cardinality(SeparationPlaneAlgorithms(geometry)) = 1 =>
       \/ EntriesOfAlgorithm(cgsm, "APPROXIMATE_FALLBACK") = 0
       \/ EntriesOfAlgorithm(cgsm, SEPARATION_PLANE) = 0
  /\ PlainSearch =>
       EntriesOfAlgorithm(cgsm, "APPROXIMATE_FALLBACK")
         = n_random_default
             * Cardinality({k \in SeparationPlaneAlgorithms(geometry) :
                              FindsNoPlane(geometry, k)})

\* C26: the random fallback enters the candidate list of a geometry for each
\* separation plane algorithm of the geometry whose own search scored no
\* permutation, ten results for each such algorithm, whether another algorithm
\* of the geometry gave candidates from a plane or not; the candidate list of
\* a geometry with one separation plane algorithm holds either candidates
\* from planes or the fallback, never both.
C26_FallbackPerAlgorithm ==
  SeparationPlanesSearched =>
    LET candidates == CandidateLists(FirstRng, 1, EmptyNbSet)
    IN  \A k \in 1..Len(TestGeometries) :
          SeparationPlaneAlgorithms(TestGeometries[k]) # {} =>
            FallbackPerAlgorithm(TestGeometries[k], candidates[k])

\* C26 as stated: whenever a separation plane algorithm of the geometry gave a
\* candidate from a plane, the candidate list of the geometry holds no
\* APPROXIMATE_FALLBACK entry.
C26_NoFallbackBesidePlanes ==
  SeparationPlanesSearched =>
    LET candidates == CandidateLists(FirstRng, 1, EmptyNbSet)
    IN  \A k \in 1..Len(TestGeometries) :
          EntriesOfAlgorithm(candidates[k], SEPARATION_PLANE) > 0 =>
            EntriesOfAlgorithm(candidates[k], "APPROXIMATE_FALLBACK") = 0

\* the plain getter has searched H:6, whose first algorithm found planes, and
\* whose second algorithm found none and gave the fallback
C26_Witness ==
  /\ SeparationPlanesSearched
  /\ PlainSearch
  /\ TestGeometries[1].mp_symbol = "H:6"
  /\ ~FindsNoPlane(TestGeometries[1], 1)
  /\ FindsNoPlane(TestGeometries[1], 2)

\* the plain search with one separation plane has returned
PlainSearched ==
  /\ pc = "done"
  /\ call.op \in {"separation_plane", "separation_plane_with"}
  /\ call.optimization = NoOptimization
  /\ ret.raised = ""

\* the separation plane of the last plain search
PlainSearchedPlane ==
  IF call.op = "separation_plane" THEN SearchedAlgorithm ELSE call.sep_plane

\* the loop of the last plain search over npoints, as it ended
PlainSearchLoop ==
  SepPlaneNpointsLoop(
    Self, PlainSearchedPlane,
    PointsPerfectOf(CoordinationGeometryFile(call.coordination_geometry)),
    PlanePoints(local_geometry), PlainSearchedPlane.minimum_number_of_points,
    SepPlaneStart)

\* the combinations of npoints neighbors of the local geometry that the
\* collinearity test passes over: pairs with the central site, and triples
CollinearCombinations(npoints) ==
  LET points == PlanePoints(local_geometry)
      combinations == Combinations(0, Size(local_geometry.coords), npoints)
      At(k, i) == points[combinations[k][i] + 2]
  IN  {k \in 1..Len(combinations) :
         \/ npoints = 2 /\ collinear(At(k, 1), At(k, 2), points[1], collinear_tolerance)
         \/ npoints = 3 /\ collinear(At(k, 1), At(k, 2), At(k, 3), collinear_tolerance)}

\* C27: the plain search tries the sizes of subsets in increasing order from
\* minimum_number_of_points up to min(maximum_number_of_points, 4); every
\* combination of a size that is tried is processed, the nearly collinear
\* subsets of 2 or 3 points being passed over without error; a larger size is
\* tried only when no smaller size gave a plane with candidates, and none
\* once a size has given one.
C27_SizesInOrderUntilFound ==
  PlainSearched =>
    LET done == PlainSearchLoop.npoints_done
        first == PlainSearchedPlane.minimum_number_of_points
        last == Min2(PlainSearchedPlane.maximum_number_of_points, 4)
    IN  /\ Len(done) <= Max2(last - first + 1, 0)
        /\ \A m \in 1..Len(done) :
             /\ done[m].npoints = first + m - 1
             /\ done[m].ncombinations
                  = Len(Combinations(0, Size(local_geometry.coords), done[m].npoints))
             /\ done[m].nskipped = Cardinality(CollinearCombinations(done[m].npoints))
             /\ m < Len(done) => done[m].nplanes = 0
        /\ first <= last =>
             /\ Len(done) >= 1
             /\ done[Len(done)].nplanes > 0 \/ done[Len(done)].npoints = last
        /\ IF PlainSearchLoop.nplanes > 0
           THEN ret.cgsm = PlainSearchLoop.result
           ELSE IsFallback(ret.cgsm, n_random_default, Size(local_geometry.coords))

\* the plain search found no plane with three points, some of the subsets
\* being nearly collinear, went on with four points and found none
C27_Witness ==
  /\ PlainSearched
  /\ Len(PlainSearchLoop.npoints_done) = 2
  /\ PlainSearchLoop.npoints_done[1].npoints = 3
  /\ PlainSearchLoop.npoints_done[1].nskipped > 0
  /\ PlainSearchLoop.npoints_done[2].npoints = 4
  /\ PlainSearchLoop.npoints_done[2].ncombinations = 15

\* the plain search found a plane with three points and tried no larger size
C27_WitnessFound ==
  /\ PlainSearched
  /\ PlainSearchedPlane.maximum_number_of_points = 6
  /\ Len(PlainSearchLoop.npoints_done) = 1
  /\ PlainSearchLoop.npoints_done[1].npoints = 3
  /\ PlainSearchLoop.npoints_done[1].ncombinations = 20
  /\ PlainSearchLoop.npoints_done[1].nplanes = 1

\* perm is a bijection on 0..n-1, perfect2local_map maps i to the i-th entry
\* of perm, and the two maps are total on 0..n-1 and inverse of each other
IsInverseMaps(perm, local2perfect_map, perfect2local_map, n) ==
  /\ IsPermutation(perm, n)
  /\ DOMAIN perfect2local_map = 0..(n - 1)
  /\ DOMAIN local2perfect_map = 0..(n - 1)
  /\ \A i \in 0..(n - 1) :
       /\ perfect2local_map[i] = perm[i + 1]
       /\ local2perfect_map[perfect2local_map[i]] = i
       /\ perfect2local_map[local2perfect_map[i]] = i

\* the lists have one length and hold bijections on 0..n-1 with their maps
IsCandidateLists(measures, permutations, algos, local2perfect_maps, perfect2local_maps, n) ==
  /\ Len(measures) = Len(permutations)
  /\ Len(algos) = Len(permutations)
  /\ Len(local2perfect_maps) = Len(permutations)
  /\ Len(perfect2local_maps) = Len(permutations)
  /\ \A i \in 1..Len(permutations) :
       IsInverseMaps(permutations[i], local2perfect_maps[i], perfect2local_maps[i], n)

\* the searches of permutations that return the five lists
SearchOps ==
  {"separation_plane", "separation_plane_with", "separation_plane_optim_plane",
   "coordination_geometry_symmetry_measures_fallback_random"}

\* the entry of a getter holds one candidate, or the lists of the candidates
IsCandidateEntry(entry, n) ==
  IF call.only_minimum \/ n = 1
  THEN IsInverseMaps(entry.indices, entry.local2perfect_map, entry.perfect2local_map, n)
  ELSE IsCandidateLists(entry.csm, entry.indices, entry.algo, entry.local2perfect_map,
                        entry.perfect2local_map, n)

\* C28: every candidate permutation that a search returns for a geometry of
\* coordination number n (explicit list, plain and optimized separation plane,
\* random fallback) is a bijection on 0..n-1, the local2perfect and
\* perfect2local maps returned with it are total maps on 0..n-1 inverse of
\* each other with perfect2local[i] the i-th entry of the permutation, and
\* the lists returned together have one length.
C28_PermutationsAreBijections ==
  /\ (pc = "done" /\ call.op \in SearchOps /\ ret.raised = "") =>
       IsCandidateLists(ret.cgsm.permutations_symmetry_measures, ret.cgsm.permutations,
                        ret.cgsm.algos, ret.cgsm.local2perfect_maps,
                        ret.cgsm.perfect2local_maps, Size(local_geometry.coords))
  /\ CgCsmCalled =>
       /\ Len(ret.cgsm.permutations) = Len(ret.cgsm.permutations_symmetry_measures)
       /\ \A i \in 1..Len(ret.cgsm.permutations) :
            IsPermutation(ret.cgsm.permutations[i], Size(local_geometry.coords))
  /\ (pc = "done" /\ GetterCall /\ ret.raised = "") =>
       \A k \in 1..Len(ret.result_dict) :
         IsCandidateEntry(ret.result_dict[k], Size(local_geometry.coords))

\* the plain search with a separation plane returned the permutation
\* (1, 2, 3, 4, 5, 0), which is not its own inverse, with its maps
C28_Witness ==
  /\ PlainSearched
  /\ \E i \in 1..Len(ret.cgsm.permutations) :
       /\ ret.cgsm.permutations[i] = <<1, 2, 3, 4, 5, 0>>
       /\ ret.cgsm.perfect2local_maps[i][0] = 1
       /\ ret.cgsm.local2perfect_maps[i][0] = 5

\* the evaluations of the call that are of the set nb_set of site isite
EvaluationsOf(isite, nb_set) ==
  {k \in 1..Len(ret.evaluations) :
     /\ ret.evaluations[k].isite = isite
     /\ ret.evaluations[k].site_voronoi_indices = nb_set.site_voronoi_indices}

\* to_add_from_hints of one site holds no set twice, no set of the site, and
\* sets of min_cn..max_cn neighbors alone
WorklistIsNew(w) ==
  /\ \A i, j \in 1..Len(w.to_add_from_hints) :
       i # j => ~SameNeighborsSet(w.to_add_from_hints[i], w.to_add_from_hints[j])
  /\ \A i \in 1..Len(w.to_add_from_hints) :
       /\ \A j \in 1..Len(w.neighbors_sets) :
            ~SameNeighborsSet(w.to_add_from_hints[i], w.neighbors_sets[j])
       /\ Len(w.to_add_from_hints[i].site_voronoi_indices) >= call.args.min_cn
       /\ Len(w.to_add_from_hints[i].site_voronoi_indices) <= DefaultMaxCn

\* every set of to_add_from_hints is a set of the site in the end, and is
\* evaluated once, in its turn after the evaluations of the sets of the site
WorklistIsEvaluated(w) ==
  \A i \in 1..Len(w.to_add_from_hints) :
    /\ IndexOfNeighborsSet(ret.se, w.isite, w.to_add_from_hints[i]) # 0
    /\ EvaluationsOf(w.isite, w.to_add_from_hints[i]) = {w.evaluated + i}

\* C29: with get_from_hints, to_add_from_hints of a site never holds two
\* equal neighbors sets, nor a set that neighbors_sets of the site holds, and
\* holds only sets of min_cn..max_cn neighbors; every set of it is added to
\* the site and evaluated exactly once, after the sets the site had.
C29_HintsWorklist ==
  (SitesCallReturned /\ ret.raised = "" /\ call.args.get_from_hints) =>
    \A n \in 1..Len(ret.worklists) :
      WorklistIsNew(ret.worklists[n]) /\ WorklistIsEvaluated(ret.worklists[n])

\* a site had its two sets evaluated, the hints gave a set that was added
\* and evaluated third
C29_Witness ==
  /\ SitesCallReturned /\ ret.raised = "" /\ call.args.get_from_hints
  /\ \E n \in 1..Len(ret.worklists) :
       /\ Len(ret.worklists[n].to_add_from_hints) > 0
       /\ Len(ret.worklists[n].neighbors_sets) > 1
       /\ ret.worklists[n].evaluated > 0

\* the next call is update_nb_set_environments for a set of neighbors
UpdateCalled == call'.op = "update_nb_set_environments"

\* environments are stored for the set of the next call
StoredBefore == ~ret.se.ce_list[call'.isite + 1][call'.at].none

\* the call left the StructureEnvironments and the finder as they were
UpdateReturnedStored ==
  /\ ret'.raised = ""
  /\ ret'.evaluations = <<>>
  /\ ret'.se = ret.se
  /\ local_geometry' = local_geometry
  /\ perfect_geometry' = perfect_geometry

\* the call set the local geometry up for the set, searched once and stored
\* what it found for the set, and left the other sets as they were
UpdateComputed ==
  LET nb_set == ret.se.neighbors_sets[call'.isite + 1].sets[call'.at]
  IN  /\ Len(ret'.evaluations) = 1
      /\ ret'.evaluations[1].isite = call'.isite
      /\ ret'.evaluations[1].site_voronoi_indices = nb_set.site_voronoi_indices
      /\ ret'.se.ce_list[call'.isite + 1][call'.at] =
           [none |-> FALSE, coord_geoms |-> ret'.evaluations[1].coord_geoms]
      /\ local_geometry' =
           AbstractGeometry(Row(structure, call'.isite + 1),
                            neighb_coords(structure, nb_set), centering_type,
                            include_central_site_in_centroid)
      /\ \A isite \in 1..Len(ret.se.ce_list) :
           \A at \in 1..Len(ret.se.ce_list[isite]) :
             (isite # call'.isite + 1 \/ at # call'.at) =>
               ret'.se.ce_list[isite][at] = ret.se.ce_list[isite][at]

\* C30: update_nb_set_environments with environments stored for the set and
\* recompute False returns them without a search and leaves the stored
\* environments and the local geometry of the finder unchanged; with
\* recompute True, or nothing stored, the environments are computed and
\* stored in the place of what was stored.
C30_UpdateIdempotent ==
  [][UpdateCalled =>
       IF StoredBefore /\ ~call'.recompute
       THEN UpdateReturnedStored
       ELSE ret'.raised = "" => UpdateComputed]_vars

\* update_nb_set_environments returned the stored environments of a set
\* whose local geometry is not the one the finder holds
C30_Witness ==
  /\ pc = "done"
  /\ call.op = "update_nb_set_environments"
  /\ ~call.recompute
  /\ ret.raised = ""
  /\ ret.evaluations = <<>>
  /\ ~ret.se.ce_list[call.isite + 1][call.at].none
  /\ local_geometry #
       AbstractGeometry(Row(structure, call.isite + 1),
                        neighb_coords(structure,
                                      ret.se.neighbors_sets[call.isite + 1].sets[call.at]),
                        centering_type, include_central_site_in_centroid)

\* update_nb_set_environments computed the environments of a set in the
\* place of the stored ones, on recompute True
C30_WitnessRecomputed ==
  /\ pc = "done"
  /\ call.op = "update_nb_set_environments"
  /\ call.recompute
  /\ ret.raised = ""
  /\ Len(ret.evaluations) = 1
Next ==
  \/ NewLocalGeometryFinder
  \/ SetupParameters
  \/ SetAllcg
  \/ SetupStructure
  \/ SetupLocalGeometry
  \/ SetupTestPerfectEnvironment
  \/ GetCoordinationSymmetryMeasures
  \/ GetCoordinationSymmetryMeasuresOptim
  \/ ComputeStructureEnvironments
  \/ FallbackRandom
  \/ SeparationPlaneSearch
  \/ SymmetryMeasure
  \/ NewSeparationPlane
  \/ CgCsmSeparationPlane
  \/ OptimPlaneStep
  \/ SeparationPlaneSearchWith

Spec == Init /\ [][Next]_vars

\* the calls on a structure whose sites all get their environments
NextSites ==
  \/ NewLocalGeometryFinder
  \/ SetupParameters
  \/ SetupStructure
  \/ ComputeStructureEnvironmentsOfSites
  \/ ResumeStructureEnvironments
  \/ UpdateNbSetEnvironments

SpecSites == Init /\ [][NextSites]_vars
====
